---- MODULE Spec2Model ----
(***************************************************************************)
(* A model of golara's RabbitMQ client runtime (framework/rabbitmq):       *)
(*   - Consumer: Start / Stop / worker / processMessages / handleMessage   *)
(*     and the built-in middleware (Logging, Recovery, Timeout,            *)
(*     Deduplication), executed frame by frame by goroutines;              *)
(*   - Connection: connect / handleReconnect / closeChannels / GetChannel  *)
(*     / Close.                                                            *)
(* Goroutines are interleaved at the points where they touch shared state. *)
(* Fields the code reads and writes without a lock (isRunning, isConnected)*)
(* are read and written in separate steps. A Go runtime fault (a panic no  *)
(* frame recovers, close of a closed channel, the runtime's concurrent map *)
(* access check) ends the process: it is recorded in fault and no          *)
(* goroutine steps afterwards.                                             *)
(***************************************************************************)
EXTENDS Integers, Sequences, FiniteSets, TLC

\* ------------------------------------------------------------- bounds
LifeStarters == 2       \* goroutines calling Start in the lifecycle specification
LifeConcurrency == 1    \* workers per Start in the lifecycle specification
WorkConcurrency == 1    \* workers in the delivery specification
PoolConcurrency == 2    \* workers in the pool specification
MaxStops == 2           \* goroutines calling Stop
MaxDeliveries == 2      \* deliveries the broker holds for the queue
LifeDeliveries == 1     \* of them, those queued in the lifecycle specification
MaxConns == 2           \* physical connections the broker ever accepts
MaxDialFails == 1       \* connect attempts the broker refuses
MaxGets == 2            \* GetChannel calls
MaxCloses == 2          \* Close calls, made one after the other
MaxCallers == 2         \* goroutines calling the Manager's Queue, Publisher, Consumer, once each
MaxText == 2            \* characters in a published string or byte slice
MaxLosses == 2          \* streams (channel or connection) the workers lose
MaxRetries == 2         \* the maxRetries a consumer passes to WithRetry
MaxTicks == 3           \* ticks the RateLimit ticker fires
MaxClock == 3           \* the last clock value a NewChannel call reads

\* ------------------------------------------- program constants and names
DoneCap == 1            \* done := make(chan error, 1)
NoFault == "none"
FaultClose == "close of closed channel"
FaultPanic == "unrecovered panic"
FaultMap == "concurrent map access"
FaultNil == "nil pointer dereference"
PrefetchCount == 10     \* NewConsumer's default prefetch count
ErrPanicRecovered == "ErrPanicRecovered"
ErrProcessingTimeout == "ErrProcessingTimeout"
ErrAlreadyRunning == "consumer is already running"
ErrChannelCreationFailed == "failed to create rabbitmq channel"
ErrConnectionTimeout == "rabbitmq connection timeout"
\* the errors GetChannel and NewConnection make with fmt.Errorf
ErrNotAvailable == "RabbitMQ connection is not available"
ErrInitialConnection == "failed to establish initial RabbitMQ connection within 10 seconds"
\* if !c.isConnected { return nil, fmt.Errorf(...) }
GetChannelNotConnected == ErrNotAvailable
\* case <-time.After(10 * time.Second): return nil, fmt.Errorf(...)
NewConnectionTimedOut == ErrInitialConnection
Wildcard == "*"
\* what a handler call can do: return nil, return an error, or panic
Outcomes == {"nil", "err", "panic"}

VARIABLES
    \* ---- Consumer
    concurrency,   \* Consumer.concurrency
    autoAck,       \* Consumer.autoAck
    handlers,      \* keys of Consumer.handlers
    middleware,    \* Consumer.middleware, outermost first
    isRunning,     \* Consumer.isRunning
    stopCh,        \* Consumer.stopCh: "open" or "closed"
    wg,            \* Consumer.wg counter
    ctxDone,       \* per Start call: its context is cancelled
    st,            \* per Start call: [pc, i, ret]
    sp,            \* per Stop call: "idle", "close", "done", or "skipped" (not running)
    th,            \* per goroutine running deliveries: [pc, d, pos, val, base]
    queue,         \* delivery tags the broker has not handed out yet
    dl,            \* per delivery tag: [id, key], and under a Retry middleware
                   \* [id, key, retry] with its x-retry-count header
    acks,          \* per delivery tag: the worker's Ack/Nack calls, in order
    invoked,       \* per delivery tag: times the registered handler was entered
    outcome,       \* per delivery tag: what the handler did last
    takenBy,       \* per delivery tag: the worker that took it
    processed,     \* InMemoryMessageStore.processed (its keys)
    doneCh,        \* per delivery tag: the Timeout frame's done channel
    timeoutRet,    \* per delivery tag: what the Timeout frame returned
    fault,         \* NoFault, or the runtime fault that ended the process
    \* ---- Connection
    isConnected,   \* Connection.isConnected
    conn,          \* Connection.conn: 0 is nil, k the k-th connection dialled
    connClosed,    \* the dialled connections for which conn.IsClosed() holds
    dials,         \* connections dialled so far
    dialFails,     \* connect attempts refused so far
    done,          \* Connection.done: "open" or "closed"
    notifyReady,   \* values buffered in Connection.notifyReady
    channels,      \* Connection.channels: name -> channel, 0 is no entry
    chConn,        \* per channel opened: the connection it was opened on
    chClosed,      \* the channels for which ch.IsClosed() holds
    channelsMux,   \* Connection.channelsMux: "free" or its holder
    built,         \* NewConnection: "none", "waiting", "ok" or "failed"
    lp,            \* position of the handleReconnect goroutine
    cl,            \* the goroutine calling Close: [pc, n, ret]
    gt,            \* the goroutine calling GetChannel: [pc, n, name]
    got,           \* what GetChannel returned last: [ch, conn, up]
    \* ---- calls of functions that keep no state
    last,          \* the last such call: [op, in, out]
    \* ---- Manager
    registries,    \* Manager.queues, .publishers, .consumers: name -> object, 0 is no entry
    mutex,         \* Manager.mutex: 0 when free, else the caller holding the write lock
    objects,       \* the objects constructed so far: [kind, name, config]
    mcall,         \* per caller: [pc, kind, name, config, ret]; ret is the object
                   \* returned, 0 before the call returns, -1 for an error
    closing,       \* the goroutine calling Manager.Close: "none" when there is none,
                   \* else "idle", "consumers", "conn" or "done"
    \* ---- Manager.ConsumeJobs
    jobHandlers,   \* the keys of the handlers map given to ConsumeJobs
    ran,           \* per delivery tag: the job types whose handler was entered, in order
    \* ---- the broker's side of one persistent message in the consumer's queue
    broker,        \* [at, tags, lost, down, losses]: at is "out" (queued or delivered
                   \* and unsettled), "requeue" (to be delivered again) or "gone"
                   \* (acknowledged); tags counts the delivery tags used for it; lost
                   \* holds the tags whose stream died before they were settled; down
                   \* the workers whose stream died and who hold no new one; losses
                   \* counts the streams lost
    \* ---- RateLimitMiddleware
    limiter,       \* the instance's ticker: ticks it has fired, c the values
                   \* buffered in limiter.C, taken the receives from limiter.C
    \* ---- Connection.NewChannel
    clock,         \* what time.Now().UnixNano() returns now
    nc             \* per caller of NewChannel: [pc, name, ch, n]; name is the
                   \* clock value in the name it generated, ch the channel it got

\* the configuration, fixed at construction
cfg == <<concurrency, autoAck, handlers, middleware, dl>>
\* what the goroutines running deliveries touch
work == <<th, queue, acks, invoked, outcome, takenBy, processed, doneCh, timeoutRet>>

consVars == <<cfg, isRunning, stopCh, wg, ctxDone, st, sp, work, fault>>

connVars == <<isConnected, conn, connClosed, dials, dialFails, done, notifyReady,
              channels, chConn, chClosed, channelsMux, built, lp, cl, gt, got>>

\* what neither the Consumer's nor the Connection's steps touch
pureVars == <<last>>
mgrVars == <<registries, mutex, objects, mcall, closing>>
jobVars == <<jobHandlers, ran>>
brokerVars == <<broker>>
rateVars == <<limiter>>
chanVars == <<clock, nc>>
extVars == <<pureVars, mgrVars, jobVars, brokerVars, rateVars, chanVars>>

vars == <<consVars, connVars, extVars>>

\* ------------------------------------------------------------ helpers
Tags == 1..MaxDeliveries
NoThread == [pc |-> "none", d |-> 0, pos |-> 0, val |-> "none", base |-> 0]
ChildOf(d) == <<0, d>>
IsWorker(t) == t[1] # 0
Running == fault = NoFault
\* the worker's ctx.Done() or stopCh is ready
Signalled(t) == ctxDone[t[1]] \/ stopCh = "closed"
StoreWriting(t) == \E u \in DOMAIN th : u # t /\ th[u].pc = "mark"

\* a lookup that falls back to the wildcard entry whether or not it exists
findHandlerAlways(routingKey) ==
    IF routingKey \in handlers THEN routingKey ELSE Wildcard

\* a lookup that tries the wildcard entry before the exact one
findHandlerWildcardFirst(routingKey) ==
    IF Wildcard \in handlers THEN Wildcard
    ELSE IF routingKey \in handlers THEN routingKey
    ELSE "nil"

\* Consumer.findHandler: exact match first, then the wildcard, else nil
findHandler(routingKey) ==
    IF routingKey \in handlers THEN routingKey
    ELSE IF Wildcard \in handlers THEN Wildcard
    ELSE "nil"

\* ------------------------------------------------------ Consumer.Start
\* if c.isRunning { return error }
StartCheck(s) ==
    /\ Running /\ st[s].pc = "idle"
    /\ st' = [st EXCEPT ![s] = IF isRunning
                                 THEN [@ EXCEPT !.pc = "done", !.ret = ErrAlreadyRunning]
                                 ELSE [@ EXCEPT !.pc = "set"]]
    /\ UNCHANGED <<cfg, isRunning, stopCh, wg,
                   ctxDone, sp, work, fault>>

\* c.isRunning = true
StartSet(s) ==
    /\ Running /\ st[s].pc = "set"
    /\ isRunning' = TRUE
    /\ st' = [st EXCEPT ![s].pc = "spawn"]
    /\ UNCHANGED <<cfg, stopCh, wg,
                   ctxDone, sp, work, fault>>

\* one turn of: for i < c.concurrency { c.wg.Add(1); go c.worker(ctx, i) }
StartSpawn(s) ==
    /\ Running /\ st[s].pc = "spawn"
    /\ wg' = wg + 1
    /\ th' = [th EXCEPT ![<<s, st[s].i + 1>>] = [NoThread EXCEPT !.pc = "loop"]]
    /\ st' = [st EXCEPT ![s].i = @ + 1,
                        ![s].pc = IF st[s].i + 1 = concurrency THEN "select" ELSE "spawn"]
    /\ UNCHANGED <<cfg, isRunning, stopCh,
                   ctxDone, sp, queue, acks, invoked, outcome, takenBy,
                   processed, doneCh, timeoutRet, fault>>

\* select { case <-ctx.Done(): case <-c.stopCh: }
StartSelect(s) ==
    /\ Running /\ st[s].pc = "select"
    /\ ctxDone[s] \/ stopCh = "closed"
    /\ st' = [st EXCEPT ![s].pc = "unset"]
    /\ UNCHANGED <<cfg, isRunning, stopCh, wg,
                   ctxDone, sp, work, fault>>

\* c.isRunning = false
StartUnset(s) ==
    /\ Running /\ st[s].pc = "unset"
    /\ isRunning' = FALSE
    /\ st' = [st EXCEPT ![s].pc = "close"]
    /\ UNCHANGED <<cfg, stopCh, wg,
                   ctxDone, sp, work, fault>>

\* close(c.stopCh): closing a closed channel panics
StartClose(s) ==
    /\ Running /\ st[s].pc = "close"
    /\ IF stopCh = "closed"
       THEN fault' = FaultClose /\ UNCHANGED <<stopCh, st>>
       ELSE stopCh' = "closed" /\ st' = [st EXCEPT ![s].pc = "wait"] /\ UNCHANGED fault
    /\ UNCHANGED <<cfg, isRunning, wg,
                   ctxDone, sp, work>>

\* a Wait that returns at once
WaitReturnsNow == TRUE

\* c.wg.Wait() returns when the counter is zero
WaitReturns == wg = 0

\* c.wg.Wait(); return nil
StartWait(s) ==
    /\ Running /\ st[s].pc = "wait"
    /\ WaitReturns
    /\ st' = [st EXCEPT ![s].pc = "done", ![s].ret = "nil"]
    /\ UNCHANGED <<cfg, isRunning, stopCh, wg,
                   ctxDone, sp, work, fault>>

\* the caller of Start cancels the context it passed
Cancel(s) ==
    /\ Running /\ ~ctxDone[s]
    /\ ctxDone' = [ctxDone EXCEPT ![s] = TRUE]
    /\ UNCHANGED <<cfg, isRunning, stopCh, wg,
                   st, sp, work, fault>>

\* ------------------------------------------------------- Consumer.Stop
\* if c.isRunning {
StopCheck(k) ==
    /\ Running /\ sp[k] = "idle"
    /\ sp' = [sp EXCEPT ![k] = IF isRunning THEN "close" ELSE "skipped"]
    /\ UNCHANGED <<cfg, isRunning, stopCh, wg,
                   ctxDone, st, work, fault>>

\* close(c.stopCh) }
StopClose(k) ==
    /\ Running /\ sp[k] = "close"
    /\ IF stopCh = "closed"
       THEN fault' = FaultClose /\ UNCHANGED <<stopCh, sp>>
       ELSE stopCh' = "closed" /\ sp' = [sp EXCEPT ![k] = "done"] /\ UNCHANGED fault
    /\ UNCHANGED <<cfg, isRunning, wg,
                   ctxDone, st, work>>

\* ----------------------------------------------------- Consumer.worker
\* the worker's for/select: leave on ctx.Done() or stopCh (defer c.wg.Done()),
\* which also covers the same select after a processMessages error
WorkerExit(w) ==
    /\ Running /\ IsWorker(w) /\ th[w].pc \in {"loop", "select"}
    /\ Signalled(w)
    /\ th' = [th EXCEPT ![w].pc = "exited"]
    /\ wg' = wg - 1
    /\ UNCHANGED <<cfg, isRunning, stopCh, ctxDone, st, sp, queue, acks, invoked,
                   outcome, takenBy, processed, doneCh, timeoutRet, fault>>

\* default: processMessages: NewChannel, Qos and Consume give the worker its
\* stream, or one of them fails and the error goes back to the worker's loop
WorkerOpen(w) ==
    /\ Running /\ IsWorker(w) /\ th[w].pc = "loop"
    /\ ~Signalled(w)
    /\ \E ok \in BOOLEAN :
         th' = [th EXCEPT ![w].pc = IF ok THEN "select" ELSE "loop"]
    /\ UNCHANGED <<cfg, isRunning, stopCh, wg, ctxDone, st, sp, queue, acks, invoked,
                   outcome, takenBy, processed, doneCh, timeoutRet, fault>>

\* a worker that returns when processMessages fails
AfterStreamErrorExit == "exited"

\* worker: after a processMessages error and its log line, the inner select's
\* default: the next turn of the for loop
AfterStreamError == "loop"

\* case delivery, ok := <-deliveries with !ok: return an error to the loop
StreamClosed(w) ==
    /\ Running /\ IsWorker(w) /\ th[w].pc = "select"
    /\ th' = [th EXCEPT ![w].pc = AfterStreamError]
    /\ UNCHANGED <<cfg, isRunning, stopCh, wg, ctxDone, st, sp, queue, acks, invoked,
                   outcome, takenBy, processed, doneCh, timeoutRet, fault>>

\* ------------------------------------------ the middleware chain, by frame
\* A goroutine at "call" is about to enter frame pos: the middleware at that
\* place, or past the last one the registered handler. A goroutine at "ret"
\* brings val (a result, or a panic unwinding) back into frame pos; base is the
\* frame its stack starts under (0 for a worker, the Timeout frame for the
\* goroutine that frame started).

\* Recovery without the assignment in its deferred function: the panic is not
\* turned into an error
RecoverNothing(v) == v

\* Recovery's deferred recover(): a panic becomes ErrPanicRecovered
Recover(v) == IF v = "panic" THEN ErrPanicRecovered ELSE v

\* RetryMiddleware: retryCount := 0; if the header exists and
\* retryHeader.(int) holds, retryCount = count. A header the client library
\* decoded off the wire holds an int32 or an int64, which that assertion refuses.
retryCount(header) == IF header.t = "int" THEN header.v ELSE 0

\* RetryMiddleware after err := next(delivery): with err != nil and
\* retryCount < maxRetries it builds a header table it does not use, sleeps
\* retryDelay and returns nil; else it returns err. A panic unwinds through it.
RetryReturn(header, err) ==
    IF err \notin {"nil", "panic"} /\ retryCount(header) < MaxRetries THEN "nil" ELSE err

\* Deduplication that marks the id whatever the handler did
MarksAlways(err) == TRUE

\* DeduplicationMiddleware after err := next(delivery):
\* if err == nil { store.MarkProcessed(messageID) }
Marks(err) == err = "nil"

\* the loop run from the first registered middleware to the last: the last
\* registered one ends up outermost
RECURSIVE wrapUp(_, _)
wrapUp(i, inner) ==
    IF i > Len(middleware) THEN inner ELSE wrapUp(i + 1, <<middleware[i]>> \o inner)

finalHandlerReversed == wrapUp(1, <<>>)

\* handleMessage: for i := len(c.middleware) - 1; i >= 0; i-- {
\*                    finalHandler = c.middleware[i](finalHandler) }
\* each turn wraps what is built so far, so the middleware wrapped last, the
\* first registered, is outermost. The chain is the sequence of its frames,
\* outermost first; the registered handler lies under the last one.
RECURSIVE wrap(_, _)
wrap(i, inner) ==
    IF i = 0 THEN inner ELSE wrap(i - 1, <<middleware[i]>> \o inner)

finalHandler == wrap(Len(middleware), <<>>)

\* a worker that Acks whatever the chain returned
AfterHandleAck(val) == "ack"

\* handleMessage and processMessages without autoAck: an error from the chain
\* is answered with d.Nack(false, true), success with delivery.Ack(false)
AfterHandle(val) == IF val = "nil" THEN "ack" ELSE "nack"

\* The steps a goroutine takes on its own, touching nothing shared, up to its
\* next access to shared state:
\*   entering Logging, Recovery or Retry calls next (Retry after reading the
\*   delivery's header);
\*   returning through Recovery runs recover(), through Logging passes the
\*   error on (a panic unwinds through it), through Retry swallows the error
\*   or passes it on, through Deduplication with an
\*   error or a panic skips MarkProcessed;
\*   below its first frame a Timeout's goroutine goes on to send on done, and
\*   a worker is back in handleMessage: an error goes to processMessages, which
\*   Nacks unless autoAck; success goes on to the Ack unless autoAck.
\* It stops before the handler, Timeout and Deduplication's store, and at a
\* panic nothing recovered.
RECURSIVE Advance(_)
Advance(r) ==
    IF r.pc = "call" /\ r.pos <= Len(middleware)
                     /\ finalHandler[r.pos] \in {"Logging", "Recovery", "Retry"}
    THEN Advance([r EXCEPT !.pos = @ + 1])
    ELSE IF r.pc = "ret" /\ r.pos # r.base
                         /\ ~(finalHandler[r.pos] = "Deduplication" /\ Marks(r.val))
    THEN Advance([r EXCEPT !.val = IF finalHandler[r.pos] = "Recovery" THEN Recover(@)
                                   ELSE IF finalHandler[r.pos] = "Retry"
                                   THEN RetryReturn(dl[r.d].retry, @)
                                   ELSE @,
                           !.pos = @ - 1])
    ELSE IF r.pc = "ret" /\ r.pos = r.base /\ r.val # "panic"
    THEN IF r.base # 0 THEN [r EXCEPT !.pc = "send"]
         ELSE IF autoAck THEN [NoThread EXCEPT !.pc = "select"]
         ELSE [r EXCEPT !.pc = AfterHandle(r.val)]
    ELSE r

\* case delivery, ok := <-deliveries: handleMessage up to the handler lookup.
\* No handler: Ack unless autoAck (the Ack's error is dropped) and return nil.
\* Otherwise the chain is built and finalHandler(delivery) is called.
TakeDelivery(w) ==
    /\ Running /\ IsWorker(w) /\ th[w].pc = "select"
    /\ queue # <<>>
    /\ LET d == Head(queue)
           h == findHandler(dl[d].key)
       IN /\ queue' = Tail(queue)
          /\ takenBy' = [takenBy EXCEPT ![d] = w]
          /\ IF h = "nil"
             THEN /\ acks' = [acks EXCEPT ![d] = IF autoAck THEN @ ELSE Append(@, "Ack")]
                  /\ th' = [th EXCEPT ![w] = [NoThread EXCEPT !.pc = "select"]]
             ELSE /\ th' = [th EXCEPT ![w] = Advance([pc |-> "call", d |-> d, pos |-> 1,
                                                       val |-> "none", base |-> 0])]
                  /\ UNCHANGED acks
    /\ UNCHANGED <<cfg, isRunning, stopCh, wg, ctxDone, st, sp, invoked, outcome,
                   processed, doneCh, timeoutRet, fault>>

\* Entering a frame that touches shared state.
\*   The handler: it starts running.
\*   Timeout: go func() { done <- next(delivery) }() and wait in the select.
\*   Deduplication: store.HasProcessed(id): return nil when it is, else call
\*     next; the store's map has no lock, so a read during another goroutine's
\*     write may trip the runtime's check.
Call(t) ==
    /\ Running /\ th[t].pc = "call"
    /\ IF th[t].pos > Len(middleware) THEN TRUE
       ELSE finalHandler[th[t].pos] # "RateLimit"
    /\ LET p == th[t].pos
           d == th[t].d
       IN IF p > Len(middleware)
          THEN /\ th' = [th EXCEPT ![t].pc = "run"]
               /\ invoked' = [invoked EXCEPT ![d] = @ + 1]
               /\ UNCHANGED fault
          ELSE /\ UNCHANGED invoked
               /\ IF finalHandler[p] = "Timeout"
                  THEN /\ th' = [th EXCEPT ![t].pc = "wait",
                                           ![ChildOf(d)] = Advance([pc |-> "call", d |-> d,
                                                                    pos |-> p + 1,
                                                                    val |-> "none",
                                                                    base |-> p])]
                       /\ UNCHANGED fault
                  ELSE \E trip \in {FALSE, StoreWriting(t)} :
                          IF trip
                          THEN fault' = FaultMap /\ UNCHANGED th
                          ELSE /\ UNCHANGED fault
                               /\ th' = [th EXCEPT ![t] =
                                           IF dl[d].id \in processed
                                           THEN Advance([@ EXCEPT !.pc = "ret", !.val = "nil",
                                                                  !.pos = p - 1])
                                           ELSE Advance([@ EXCEPT !.pos = p + 1])]
    /\ UNCHANGED <<cfg, isRunning, stopCh, wg, ctxDone, st, sp, queue, acks,
                   outcome, takenBy, processed, doneCh, timeoutRet>>

\* a gate that lets a goroutine through whether or not a tick is buffered
TickReadyAlways == TRUE

\* <-limiter.C can proceed: the ticker's channel holds a tick
TickReady == limiter.c > 0

\* the runtime fires the ticker every time.Second / requestsPerSecond: a
\* non-blocking send on limiter.C, whose buffer holds one tick; a tick that
\* finds the buffer full is dropped
Tick ==
    /\ Running
    /\ limiter.ticks < MaxTicks
    /\ limiter' = [limiter EXCEPT !.ticks = @ + 1, !.c = 1]

\* RateLimit's frame: <-limiter.C; return next(delivery). The limiter belongs
\* to the MiddlewareFunc, so every chain built from it waits on the same one.
RateLimitWait(t) ==
    /\ Running /\ th[t].pc = "call"
    /\ th[t].pos <= Len(middleware) /\ finalHandler[th[t].pos] = "RateLimit"
    /\ TickReady
    /\ limiter' = [limiter EXCEPT !.c = 0, !.taken = @ + 1]
    /\ LET p == th[t].pos
       IN th' = [th EXCEPT ![t] = Advance([th[t] EXCEPT !.pos = p + 1])]
    /\ UNCHANGED <<cfg, isRunning, stopCh, wg, ctxDone, st, sp, queue, acks, invoked,
                   outcome, takenBy, processed, doneCh, timeoutRet, fault>>

\* the registered handler returns nil, returns an error, or panics
HandlerReturn(t) ==
    /\ Running /\ th[t].pc = "run"
    /\ \E out \in Outcomes :
         /\ th' = [th EXCEPT ![t] = Advance([@ EXCEPT !.pc = "ret", !.val = out,
                                                      !.pos = Len(middleware)])]
         /\ outcome' = [outcome EXCEPT ![th[t].d] = out]
    /\ UNCHANGED <<cfg, isRunning, stopCh, wg, ctxDone, st, sp, queue, acks, invoked,
                   takenBy, processed, doneCh, timeoutRet, fault>>

\* Returning where shared state is touched.
\*   A panic that unwound a goroutine's whole stack ends the process.
\*   Deduplication with err == nil: store.MarkProcessed(id) starts its write to
\*     the map, which may trip the runtime's check when another write is open.
Return(t) ==
    /\ Running /\ th[t].pc = "ret"
    /\ IF th[t].pos = th[t].base
       THEN fault' = FaultPanic /\ UNCHANGED th
       ELSE \E trip \in {FALSE, StoreWriting(t)} :
               IF trip
               THEN fault' = FaultMap /\ UNCHANGED th
               ELSE th' = [th EXCEPT ![t].pc = "mark"] /\ UNCHANGED fault
    /\ UNCHANGED <<cfg, isRunning, stopCh, wg, ctxDone, st, sp, queue, acks, invoked,
                   outcome, takenBy, processed, doneCh, timeoutRet>>

\* InMemoryMessageStore.MarkProcessed: s.processed[messageID] = time.Now()
MarkProcessed(t) ==
    /\ Running /\ th[t].pc = "mark"
    /\ processed' = processed \cup {dl[th[t].d].id}
    /\ th' = [th EXCEPT ![t] = Advance([@ EXCEPT !.pc = "ret", !.pos = @ - 1])]
    /\ UNCHANGED <<cfg, isRunning, stopCh, wg, ctxDone, st, sp, queue, acks, invoked,
                   outcome, takenBy, doneCh, timeoutRet, fault>>

\* with done := make(chan error) a send goes through only while the Timeout
\* frame is still in its select
RoomOnDoneUnbuffered(d) ==
    doneCh[d] = <<>> /\ \E w \in DOMAIN th : th[w].pc = "wait" /\ th[w].d = d

\* done := make(chan error, 1): a send goes through while the buffer has room
RoomOnDone(d) == Len(doneCh[d]) < DoneCap

\* Timeout's goroutine: done <- next(delivery)
Send(t) ==
    /\ Running /\ th[t].pc = "send"
    /\ RoomOnDone(th[t].d)
    /\ doneCh' = [doneCh EXCEPT ![th[t].d] = Append(@, th[t].val)]
    /\ th' = [th EXCEPT ![t].pc = "exited"]
    /\ UNCHANGED <<cfg, isRunning, stopCh, wg, ctxDone, st, sp, queue, acks, invoked,
                   outcome, takenBy, processed, timeoutRet, fault>>

\* Timeout's select: case err := <-done: return err
\*                   case <-time.After(timeout): return ErrProcessingTimeout
TimeoutSelect(t) ==
    /\ Running /\ th[t].pc = "wait"
    /\ \/ /\ doneCh[th[t].d] # <<>>
          /\ th' = [th EXCEPT ![t] = Advance([@ EXCEPT !.pc = "ret",
                                                       !.val = Head(doneCh[th[t].d]),
                                                       !.pos = @ - 1])]
          /\ doneCh' = [doneCh EXCEPT ![th[t].d] = Tail(@)]
          /\ timeoutRet' = [timeoutRet EXCEPT ![th[t].d] = Head(doneCh[th[t].d])]
       \/ /\ th' = [th EXCEPT ![t] = Advance([@ EXCEPT !.pc = "ret",
                                                       !.val = ErrProcessingTimeout,
                                                       !.pos = @ - 1])]
          /\ timeoutRet' = [timeoutRet EXCEPT ![th[t].d] = ErrProcessingTimeout]
          /\ UNCHANGED doneCh
    /\ UNCHANGED <<cfg, isRunning, stopCh, wg, ctxDone, st, sp, queue, acks, invoked,
                   outcome, takenBy, processed, fault>>

\* ------------------------------- handleMessage's and processMessages' end
\* return delivery.Ack(false): the broker call can fail (a closed channel), and
\* its error is handleMessage's result, which processMessages answers as any other
AckCall(w) ==
    /\ Running /\ th[w].pc = "ack"
    /\ acks' = [acks EXCEPT ![th[w].d] = Append(@, "Ack")]
    /\ \E ackErr \in BOOLEAN :
         th' = [th EXCEPT ![w] = IF ackErr THEN [@ EXCEPT !.pc = "nack", !.val = "err"]
                                 ELSE [NoThread EXCEPT !.pc = "select"]]
    /\ UNCHANGED <<cfg, isRunning, stopCh, wg, ctxDone, st, sp, queue, invoked,
                   outcome, takenBy, processed, doneCh, timeoutRet, fault>>

\* d.Nack(false, true)
NackCall(w) ==
    /\ Running /\ th[w].pc = "nack"
    /\ acks' = [acks EXCEPT ![th[w].d] = Append(@, "Nack")]
    /\ th' = [th EXCEPT ![w] = [NoThread EXCEPT !.pc = "select"]]
    /\ UNCHANGED <<cfg, isRunning, stopCh, wg, ctxDone, st, sp, queue, invoked,
                   outcome, takenBy, processed, doneCh, timeoutRet, fault>>

\* the worker that took delivery d is done with it
Finished(d) == takenBy[d] # <<0, 0>> /\ th[takenBy[d]].d # d


\* ====================================================== Connection
Names == {"a", "b"}     \* channel names the callers of GetChannel use
NoChannels == [n \in Names |-> 0]
Channels == 1..Len(chConn)
\* Close() has been called
CloseCalled == cl.n > 0 \/ cl.pc # "idle"
\* <-c.notifyClose is ready: the library sends the error or closes the
\* channel once the connection registered with NotifyClose is closed
NotifyCloseReady == conn \in connClosed

\* ------------------------------------------------ Connection.connect
\* c.conn, err = amqp.DialConfig(...) succeeds
ConnectDialed ==
    /\ Running /\ lp = "connect"
    /\ dials < MaxConns
    /\ dials' = dials + 1
    /\ conn' = dials + 1
    /\ lp' = "ready"
    /\ UNCHANGED <<isConnected, connClosed, dialFails, done, notifyReady, channels,
                   chConn, chClosed, channelsMux, built, cl, gt, got>>

\* c.conn, err = amqp.DialConfig(...) fails: c.conn is nil, connect returns
\* the error and handleReconnect sleeps ReconnectDelay and tries again
ConnectRefused ==
    /\ Running /\ lp = "connect"
    /\ dialFails < MaxDialFails
    /\ dialFails' = dialFails + 1
    /\ conn' = 0
    /\ UNCHANGED <<isConnected, connClosed, dials, done, notifyReady, channels,
                   chConn, chClosed, channelsMux, built, lp, cl, gt, got>>

\* c.isConnected = true; NotifyClose; non-blocking send on notifyReady
ConnectReady ==
    /\ Running /\ lp = "ready"
    /\ isConnected' = TRUE
    /\ notifyReady' = 1
    /\ lp' = "select"
    /\ UNCHANGED <<conn, connClosed, dials, dialFails, done, channels,
                   chConn, chClosed, channelsMux, built, cl, gt, got>>

\* ------------------------------------------ Connection.closeChannels
\* every entry is closed and deleted
closeChannelsNothing(m, closed) == [channels |-> m, chClosed |-> closed]

closeChannels(m, closed) ==
    [channels |-> NoChannels,
     chClosed |-> closed \cup {m[n] : n \in {x \in Names : m[x] # 0}}]

\* ------------------------------------------ Connection.handleReconnect
\* select: case <-c.done: return
ReconnectDone ==
    /\ Running /\ lp = "select"
    /\ done = "closed"
    /\ lp' = "exited"
    /\ UNCHANGED <<isConnected, conn, connClosed, dials, dialFails, done, notifyReady,
                   channels, chConn, chClosed, channelsMux, built, cl, gt, got>>

\* select: case <-c.notifyClose: c.isConnected = false
ReconnectLost ==
    /\ Running /\ lp = "select"
    /\ NotifyCloseReady
    /\ isConnected' = FALSE
    /\ lp' = "closeChannels"
    /\ UNCHANGED <<conn, connClosed, dials, dialFails, done, notifyReady,
                   channels, chConn, chClosed, channelsMux, built, cl, gt, got>>

\* c.closeChannels(), then the next turn of the loop
ReconnectCloseChannels ==
    /\ Running /\ lp = "closeChannels"
    /\ channelsMux = "free"
    /\ channels' = closeChannels(channels, chClosed).channels
    /\ chClosed' = closeChannels(channels, chClosed).chClosed
    /\ lp' = "connect"
    /\ UNCHANGED <<isConnected, conn, connClosed, dials, dialFails, done, notifyReady,
                   chConn, channelsMux, built, cl, gt, got>>

\* -------------------------------------------------- NewConnection
\* case <-conn.notifyReady: return conn, nil
NewConnectionReady ==
    /\ Running /\ built = "waiting"
    /\ notifyReady = 1
    /\ notifyReady' = 0
    /\ built' = "ok"
    /\ UNCHANGED <<isConnected, conn, connClosed, dials, dialFails, done,
                   channels, chConn, chClosed, channelsMux, lp, cl, gt, got>>

\* case <-time.After(10 * time.Second): return nil, error; the caller holds
\* no Connection, the reconnect goroutine goes on
NewConnectionTimeout ==
    /\ Running /\ built = "waiting"
    /\ built' = "failed"
    /\ UNCHANGED <<isConnected, conn, connClosed, dials, dialFails, done, notifyReady,
                   channels, chConn, chClosed, channelsMux, lp, cl, gt, got>>

\* ------------------------------------------------ Connection.GetChannel
Usable(ch) == ch # 0 /\ ch \notin chClosed

\* under RLock: return the entry if it exists and is not closed
GetChannelFast(name) ==
    /\ Running /\ built = "ok"
    /\ gt.pc = "idle" /\ gt.n < MaxGets
    /\ channelsMux = "free"
    /\ IF Usable(channels[name])
       THEN /\ got' = [ch |-> channels[name], conn |-> conn, up |-> isConnected]
            /\ gt' = [gt EXCEPT !.n = @ + 1]
       ELSE /\ gt' = [gt EXCEPT !.pc = "lock", !.name = name]
            /\ UNCHANGED got
    /\ UNCHANGED <<isConnected, conn, connClosed, dials, dialFails, done, notifyReady,
                   channels, chConn, chClosed, channelsMux, built, lp, cl>>

\* Lock; the double check; if !c.isConnected { return nil, error }
GetChannelLock ==
    /\ Running /\ gt.pc = "lock"
    /\ channelsMux = "free"
    /\ IF Usable(channels[gt.name])
       THEN /\ got' = [ch |-> channels[gt.name], conn |-> conn, up |-> isConnected]
            /\ gt' = [gt EXCEPT !.pc = "idle", !.n = @ + 1]
            /\ UNCHANGED channelsMux
       ELSE IF ~isConnected
       THEN /\ gt' = [gt EXCEPT !.pc = "idle", !.n = @ + 1]
            /\ UNCHANGED <<got, channelsMux>>
       ELSE /\ gt' = [gt EXCEPT !.pc = "open"]
            /\ channelsMux' = "GetChannel"
            /\ UNCHANGED got
    /\ UNCHANGED <<isConnected, conn, connClosed, dials, dialFails, done, notifyReady,
                   channels, chConn, chClosed, built, lp, cl>>

\* ch, err := c.conn.Channel(); c.channels[name] = ch; Unlock (deferred).
\* A nil c.conn is dereferenced; a closed connection opens no channel; an
\* open one may still refuse.
GetChannelOpen ==
    /\ Running /\ gt.pc = "open"
    /\ IF conn = 0
       THEN /\ fault' = FaultNil
            /\ UNCHANGED <<channels, chConn, got, gt, channelsMux>>
       ELSE /\ \E opened \in IF conn \in connClosed THEN {FALSE} ELSE BOOLEAN :
                 IF opened
                 THEN /\ chConn' = Append(chConn, conn)
                      /\ channels' = [channels EXCEPT ![gt.name] = Len(chConn) + 1]
                      /\ got' = [ch |-> Len(chConn) + 1, conn |-> conn, up |-> isConnected]
                 ELSE UNCHANGED <<channels, chConn, got>>
            /\ gt' = [gt EXCEPT !.pc = "idle", !.n = @ + 1]
            /\ channelsMux' = "free"
            /\ UNCHANGED fault
    /\ UNCHANGED <<isConnected, conn, connClosed, dials, dialFails, done, notifyReady,
                   chClosed, built, lp, cl>>

\* ------------------------------------------------- Connection.Close
\* if !c.isConnected { return nil }
CloseCheck ==
    /\ Running /\ built = "ok"
    /\ cl.pc = "idle" /\ cl.n < MaxCloses
    /\ cl' = IF isConnected THEN [cl EXCEPT !.pc = "done"]
             ELSE [cl EXCEPT !.n = @ + 1, !.ret = "nil"]
    /\ UNCHANGED <<isConnected, conn, connClosed, dials, dialFails, done, notifyReady,
                   channels, chConn, chClosed, channelsMux, built, lp, gt, got>>

\* close(c.done): closing a closed channel panics
CloseDone ==
    /\ Running /\ cl.pc = "done"
    /\ IF done = "closed"
       THEN fault' = FaultClose /\ UNCHANGED <<done, cl>>
       ELSE done' = "closed" /\ cl' = [cl EXCEPT !.pc = "closeChannels"] /\ UNCHANGED fault
    /\ UNCHANGED <<isConnected, conn, connClosed, dials, dialFails, notifyReady,
                   channels, chConn, chClosed, channelsMux, built, lp, gt, got>>

\* c.closeChannels()
CloseCloseChannels ==
    /\ Running /\ cl.pc = "closeChannels"
    /\ channelsMux = "free"
    /\ channels' = closeChannels(channels, chClosed).channels
    /\ chClosed' = closeChannels(channels, chClosed).chClosed
    /\ cl' = [cl EXCEPT !.pc = "conn"]
    /\ UNCHANGED <<isConnected, conn, connClosed, dials, dialFails, done, notifyReady,
                   chConn, channelsMux, built, lp, gt, got>>

\* if c.conn != nil && !c.conn.IsClosed() { return c.conn.Close() }
\* c.isConnected = false; return nil
CloseConn ==
    /\ Running /\ cl.pc = "conn"
    /\ IF conn # 0 /\ conn \notin connClosed
       THEN /\ connClosed' = connClosed \cup {conn}
            /\ \E r \in {"nil", "err"} : cl' = [pc |-> "idle", n |-> cl.n + 1, ret |-> r]
            /\ UNCHANGED isConnected
       ELSE /\ isConnected' = FALSE
            /\ cl' = [pc |-> "idle", n |-> cl.n + 1, ret |-> "nil"]
            /\ UNCHANGED connClosed
    /\ UNCHANGED <<conn, dials, dialFails, done, notifyReady,
                   channels, chConn, chClosed, channelsMux, built, lp, gt, got>>

\* ------------------------------------------ the broker and the network
\* the physical connection drops: the library marks it closed and notifies
Drop ==
    /\ Running
    /\ dials < MaxConns
    /\ \E k \in (1..dials) \ connClosed : connClosed' = connClosed \cup {k}
    /\ UNCHANGED <<isConnected, conn, dials, dialFails, done, notifyReady,
                   channels, chConn, chClosed, channelsMux, built, lp, cl, gt, got>>

\* the library shuts down a channel of a closed connection, some time after
\* the close notification
ChannelsDie ==
    /\ Running
    /\ \E ch \in Channels \ chClosed :
          /\ chConn[ch] \in connClosed
          /\ chClosed' = chClosed \cup {ch}
    /\ UNCHANGED <<isConnected, conn, connClosed, dials, dialFails, done, notifyReady,
                   channels, chConn, channelsMux, built, lp, cl, gt, got>>

\* ------------------------------------------------------ specifications
\* the connection's fields at construction; for a program that builds none,
\* no goroutine of it exists
InitConnection(made) ==
    /\ isConnected = FALSE
    /\ conn = 0
    /\ connClosed = {}
    /\ dials = 0
    /\ dialFails = 0
    /\ done = "open"
    /\ notifyReady = 0
    /\ channels = NoChannels
    /\ chConn = <<>>
    /\ chClosed = {}
    /\ channelsMux = "free"
    /\ built = IF made THEN "waiting" ELSE "none"
    /\ lp = IF made THEN "connect" ELSE "none"
    /\ cl = [pc |-> "idle", n |-> 0, ret |-> "none"]
    /\ gt = [pc |-> "idle", n |-> 0, name |-> "a"]
    /\ got = [ch |-> 0, conn |-> 0, up |-> FALSE]

NoConnection == InitConnection(FALSE)

\* no call made yet
NoCall == [op |-> "none", in |-> <<>>, out |-> "none"]

\* the Manager's fields after NewManager; with no caller, a program that
\* builds none
Kinds == {"queue", "publisher", "consumer"}
MgrNames == {"x", "y"}
Configs == {"nil", "A"}
InitManager(callers) ==
    /\ registries = [k \in Kinds |-> [n \in MgrNames |-> 0]]
    /\ mutex = 0
    /\ objects = <<>>
    /\ mcall = [m \in callers |-> [pc |-> "idle", kind |-> "queue", name |-> "x",
                                   config |-> "nil", ret |-> 0]]
    /\ closing = "none"

NoManager == InitManager({})
\* no ConsumeJobs call made
NoJobs == jobHandlers = {} /\ ran = [d \in Tags |-> <<>>]
\* no broker observed
NoBroker == broker = [at |-> "out", tags |-> 0, lost |-> {}, down |-> {}, losses |-> 0]
\* no RateLimit middleware made
NoLimiter == limiter = [ticks |-> 0, c |-> 0, taken |-> 0]
\* no NewChannel call made
NoNewChannel == clock = 1 /\ nc = <<>>
NoExt == last = NoCall /\ NoManager /\ NoJobs /\ NoBroker /\ NoLimiter /\ NoNewChannel

\* the middleware lists a consumer is given with Use, outermost first
Chains == { <<>>,
            <<"Recovery">>,
            <<"Logging", "Recovery">>,
            <<"Recovery", "Timeout">>,
            <<"Timeout", "Recovery">>,
            <<"Timeout">>,
            <<"Deduplication">> }

\* the deliveries in the queue: redeliveries of one message under one routing
\* key, or different messages under different keys
DeliverySets == { [d \in Tags |-> [id |-> 1, key |-> "k"]],
                  [d \in Tags |-> [id |-> d, key |-> IF d = 1 THEN "k" ELSE "j"]] }

\* The consumer after NewConsumer, Handle/HandleAll and Use; with started, the
\* state in which every Start call has spawned its workers and reached its select.
InitConsumer(starters, stoppers, n, queued, started) ==
    /\ concurrency = n
    /\ isRunning = started
    /\ stopCh = "open"
    /\ wg = IF started THEN n * Cardinality(starters) ELSE 0
    /\ ctxDone = [s \in starters |-> FALSE]
    /\ st = [s \in starters |-> IF started THEN [pc |-> "select", i |-> n, ret |-> "none"]
                                ELSE [pc |-> "idle", i |-> 0, ret |-> "none"]]
    /\ sp = [k \in stoppers |-> "idle"]
    /\ th = [t \in (starters \X (1..n)) \cup {ChildOf(d) : d \in Tags} |->
               IF started /\ IsWorker(t) THEN [NoThread EXCEPT !.pc = "loop"] ELSE NoThread]
    /\ queue = [i \in 1..queued |-> i]
    /\ acks = [d \in Tags |-> <<>>]
    /\ invoked = [d \in Tags |-> 0]
    /\ outcome = [d \in Tags |-> "none"]
    /\ takenBy = [d \in Tags |-> <<0, 0>>]
    /\ processed = {}
    /\ doneCh = [d \in Tags |-> <<>>]
    /\ timeoutRet = [d \in Tags |-> "none"]
    /\ fault = NoFault

\* Lifecycle: several goroutines call Start and Stop on one consumer that has
\* a wildcard handler and no middleware.
InitLife ==
    /\ InitConsumer(1..LifeStarters, 1..MaxStops, LifeConcurrency, LifeDeliveries, FALSE)
    /\ NoConnection
    /\ NoExt
    /\ autoAck \in BOOLEAN
    /\ handlers = {Wildcard}
    /\ middleware = <<>>
    /\ dl = [d \in Tags |-> [id |-> d, key |-> "k"]]

NextLife ==
    \/ \E s \in DOMAIN st : StartCheck(s) /\ UNCHANGED <<connVars, extVars>>
    \/ \E s \in DOMAIN st : StartSet(s) /\ UNCHANGED <<connVars, extVars>>
    \/ \E s \in DOMAIN st : StartSpawn(s) /\ UNCHANGED <<connVars, extVars>>
    \/ \E s \in DOMAIN st : StartSelect(s) /\ UNCHANGED <<connVars, extVars>>
    \/ \E s \in DOMAIN st : StartUnset(s) /\ UNCHANGED <<connVars, extVars>>
    \/ \E s \in DOMAIN st : StartClose(s) /\ UNCHANGED <<connVars, extVars>>
    \/ \E s \in DOMAIN st : StartWait(s) /\ UNCHANGED <<connVars, extVars>>
    \/ \E s \in DOMAIN st : Cancel(s) /\ UNCHANGED <<connVars, extVars>>
    \/ \E k \in DOMAIN sp : StopCheck(k) /\ UNCHANGED <<connVars, extVars>>
    \/ \E k \in DOMAIN sp : StopClose(k) /\ UNCHANGED <<connVars, extVars>>
    \/ \E t \in DOMAIN th : WorkerExit(t) /\ UNCHANGED <<connVars, extVars>>
    \/ \E t \in DOMAIN th : WorkerOpen(t) /\ UNCHANGED <<connVars, extVars>>
    \/ \E t \in DOMAIN th : StreamClosed(t) /\ UNCHANGED <<connVars, extVars>>
    \/ \E t \in DOMAIN th : TakeDelivery(t) /\ UNCHANGED <<connVars, extVars>>
    \/ \E t \in DOMAIN th : Call(t) /\ UNCHANGED <<connVars, extVars>>
    \/ \E t \in DOMAIN th : HandlerReturn(t) /\ UNCHANGED <<connVars, extVars>>
    \/ \E t \in DOMAIN th : Return(t) /\ UNCHANGED <<connVars, extVars>>
    \/ \E t \in DOMAIN th : AckCall(t) /\ UNCHANGED <<connVars, extVars>>
    \/ \E t \in DOMAIN th : NackCall(t) /\ UNCHANGED <<connVars, extVars>>

SpecLife == InitLife /\ [][NextLife]_vars

\* Shutdown: the running consumer with a wildcard handler and no middleware;
\* the caller of Start may cancel its context and one goroutine may call Stop.
InitShutdown ==
    /\ InitConsumer({1}, {1}, WorkConcurrency, MaxDeliveries, TRUE)
    /\ NoConnection
    /\ NoExt
    /\ autoAck \in BOOLEAN
    /\ handlers = {Wildcard}
    /\ middleware = <<>>
    /\ dl = [d \in Tags |-> [id |-> d, key |-> "k"]]

NextShutdown ==
    \/ \E s \in DOMAIN st : Cancel(s) /\ UNCHANGED <<connVars, extVars>>
    \/ \E k \in DOMAIN sp : StopCheck(k) /\ UNCHANGED <<connVars, extVars>>
    \/ \E k \in DOMAIN sp : StopClose(k) /\ UNCHANGED <<connVars, extVars>>
    \/ \E s \in DOMAIN st : StartSelect(s) /\ UNCHANGED <<connVars, extVars>>
    \/ \E s \in DOMAIN st : StartUnset(s) /\ UNCHANGED <<connVars, extVars>>
    \/ \E s \in DOMAIN st : StartClose(s) /\ UNCHANGED <<connVars, extVars>>
    \/ \E s \in DOMAIN st : StartWait(s) /\ UNCHANGED <<connVars, extVars>>
    \/ \E t \in DOMAIN th : WorkerExit(t) /\ UNCHANGED <<connVars, extVars>>
    \/ \E t \in DOMAIN th : WorkerOpen(t) /\ UNCHANGED <<connVars, extVars>>
    \/ \E t \in DOMAIN th : StreamClosed(t) /\ UNCHANGED <<connVars, extVars>>
    \/ \E t \in DOMAIN th : TakeDelivery(t) /\ UNCHANGED <<connVars, extVars>>
    \/ \E t \in DOMAIN th : Call(t) /\ UNCHANGED <<connVars, extVars>>
    \/ \E t \in DOMAIN th : HandlerReturn(t) /\ UNCHANGED <<connVars, extVars>>
    \/ \E t \in DOMAIN th : Return(t) /\ UNCHANGED <<connVars, extVars>>
    \/ \E t \in DOMAIN th : AckCall(t) /\ UNCHANGED <<connVars, extVars>>
    \/ \E t \in DOMAIN th : NackCall(t) /\ UNCHANGED <<connVars, extVars>>

SpecShutdown == InitShutdown /\ [][NextShutdown]_vars

\* Deliveries: the consumer is running (its one Start call has spawned the
\* workers and waits in its select), with a middleware chain; nobody calls
\* Stop or cancels the context, so the workers stay in their loops (shutdown is
\* the lifecycle specification's subject).
InitWork ==
    /\ InitConsumer({1}, {}, WorkConcurrency, MaxDeliveries, TRUE)
    /\ NoConnection
    /\ NoExt
    /\ autoAck \in BOOLEAN
    /\ handlers = {"k"}
    /\ middleware \in Chains
    /\ dl \in DeliverySets

NextWork ==
    \/ \E t \in DOMAIN th : WorkerOpen(t) /\ UNCHANGED <<connVars, extVars>>
    \/ \E t \in DOMAIN th : StreamClosed(t) /\ UNCHANGED <<connVars, extVars>>
    \/ \E t \in DOMAIN th : TakeDelivery(t) /\ UNCHANGED <<connVars, extVars>>
    \/ \E t \in DOMAIN th : Call(t) /\ UNCHANGED <<connVars, extVars>>
    \/ \E t \in DOMAIN th : HandlerReturn(t) /\ UNCHANGED <<connVars, extVars>>
    \/ \E t \in DOMAIN th : Return(t) /\ UNCHANGED <<connVars, extVars>>
    \/ \E t \in DOMAIN th : MarkProcessed(t) /\ UNCHANGED <<connVars, extVars>>
    \/ \E t \in DOMAIN th : Send(t) /\ UNCHANGED <<connVars, extVars>>
    \/ \E t \in DOMAIN th : TimeoutSelect(t) /\ UNCHANGED <<connVars, extVars>>
    \/ \E t \in DOMAIN th : AckCall(t) /\ UNCHANGED <<connVars, extVars>>
    \/ \E t \in DOMAIN th : NackCall(t) /\ UNCHANGED <<connVars, extVars>>

SpecWork == InitWork /\ [][NextWork]_vars

\* Pool: the running consumer with several workers sharing one Deduplication
\* middleware and its store; the queue holds redeliveries of one message.
InitPool ==
    /\ InitConsumer({1}, {}, PoolConcurrency, MaxDeliveries, TRUE)
    /\ NoConnection
    /\ NoExt
    /\ autoAck = FALSE
    /\ handlers = {"k"}
    /\ middleware = <<"Deduplication">>
    /\ dl = [d \in Tags |-> [id |-> 1, key |-> "k"]]

NextPool ==
    \/ \E s \in DOMAIN st : Cancel(s) /\ UNCHANGED <<connVars, extVars>>
    \/ \E t \in DOMAIN th : WorkerExit(t) /\ UNCHANGED <<connVars, extVars>>
    \/ \E t \in DOMAIN th : WorkerOpen(t) /\ UNCHANGED <<connVars, extVars>>
    \/ \E t \in DOMAIN th : StreamClosed(t) /\ UNCHANGED <<connVars, extVars>>
    \/ \E t \in DOMAIN th : TakeDelivery(t) /\ UNCHANGED <<connVars, extVars>>
    \/ \E t \in DOMAIN th : Call(t) /\ UNCHANGED <<connVars, extVars>>
    \/ \E t \in DOMAIN th : HandlerReturn(t) /\ UNCHANGED <<connVars, extVars>>
    \/ \E t \in DOMAIN th : Return(t) /\ UNCHANGED <<connVars, extVars>>
    \/ \E t \in DOMAIN th : MarkProcessed(t) /\ UNCHANGED <<connVars, extVars>>
    \/ \E t \in DOMAIN th : AckCall(t) /\ UNCHANGED <<connVars, extVars>>
    \/ \E t \in DOMAIN th : NackCall(t) /\ UNCHANGED <<connVars, extVars>>

SpecPool == InitPool /\ [][NextPool]_vars

\* the x-retry-count header of a delivery: absent, or a count held as a Go
\* int (a Delivery built in the process) or as the int32 or int64 the client
\* library decodes off the wire
RetryHeaders ==
    {[t |-> "absent", v |-> 0]}
      \cup [t : {"int", "int32", "int64"}, v : 0..MaxRetries]

\* the middleware lists with Retry next to the registered handler
RetryChains == { <<"Retry">>, <<"Recovery", "Retry">>, <<"Logging", "Retry">> }

\* Retry: one worker of the running consumer, manual acknowledgement, a chain
\* with RetryMiddleware(MaxRetries, delay); the deliveries are different
\* messages carrying any retry-count header.
InitRetry ==
    /\ InitConsumer({1}, {}, 1, MaxDeliveries, TRUE)
    /\ NoConnection
    /\ NoExt
    /\ autoAck = FALSE
    /\ handlers = {Wildcard}
    /\ middleware \in RetryChains
    /\ dl \in [Tags -> {[id |-> d, key |-> "k", retry |-> h] :
                            d \in Tags, h \in RetryHeaders}]
    /\ \A d \in Tags : dl[d].id = d

NextRetry ==
    \/ \E t \in DOMAIN th : WorkerOpen(t) /\ UNCHANGED <<connVars, extVars>>
    \/ \E t \in DOMAIN th : StreamClosed(t) /\ UNCHANGED <<connVars, extVars>>
    \/ \E t \in DOMAIN th : TakeDelivery(t) /\ UNCHANGED <<connVars, extVars>>
    \/ \E t \in DOMAIN th : Call(t) /\ UNCHANGED <<connVars, extVars>>
    \/ \E t \in DOMAIN th : HandlerReturn(t) /\ UNCHANGED <<connVars, extVars>>
    \/ \E t \in DOMAIN th : Return(t) /\ UNCHANGED <<connVars, extVars>>
    \/ \E t \in DOMAIN th : AckCall(t) /\ UNCHANGED <<connVars, extVars>>
    \/ \E t \in DOMAIN th : NackCall(t) /\ UNCHANGED <<connVars, extVars>>

SpecRetry == InitRetry /\ [][NextRetry]_vars

\* the middleware lists with one RateLimit instance
RateChains == { <<"RateLimit">>, <<"Recovery", "RateLimit">>, <<"RateLimit", "Logging">> }

\* Rate: the running consumer with several workers and one RateLimit
\* middleware, whose ticker runs from the moment the middleware was made.
InitRate ==
    /\ InitConsumer({1}, {}, PoolConcurrency, MaxDeliveries, TRUE)
    /\ NoConnection
    /\ last = NoCall /\ NoManager /\ NoJobs /\ NoBroker /\ NoNewChannel
    /\ limiter \in {[ticks |-> n, c |-> IF n > 0 THEN 1 ELSE 0, taken |-> 0] : n \in 0..1}
    /\ autoAck \in BOOLEAN
    /\ handlers = {Wildcard}
    /\ middleware \in RateChains
    /\ dl = [d \in Tags |-> [id |-> d, key |-> "k"]]

NextRate ==
    \/ Tick /\ UNCHANGED <<consVars, connVars, pureVars, mgrVars, jobVars, brokerVars, chanVars>>
    \/ \E t \in DOMAIN th : RateLimitWait(t) /\ UNCHANGED <<connVars, pureVars, mgrVars, jobVars, brokerVars, chanVars>>
    \/ \E t \in DOMAIN th : WorkerOpen(t) /\ UNCHANGED <<connVars, extVars>>
    \/ \E t \in DOMAIN th : StreamClosed(t) /\ UNCHANGED <<connVars, extVars>>
    \/ \E t \in DOMAIN th : TakeDelivery(t) /\ UNCHANGED <<connVars, extVars>>
    \/ \E t \in DOMAIN th : Call(t) /\ UNCHANGED <<connVars, extVars>>
    \/ \E t \in DOMAIN th : HandlerReturn(t) /\ UNCHANGED <<connVars, extVars>>
    \/ \E t \in DOMAIN th : Return(t) /\ UNCHANGED <<connVars, extVars>>
    \/ \E t \in DOMAIN th : AckCall(t) /\ UNCHANGED <<connVars, extVars>>
    \/ \E t \in DOMAIN th : NackCall(t) /\ UNCHANGED <<connVars, extVars>>

SpecRate == InitRate /\ [][NextRate]_vars

\* Connection: NewConnection has started the reconnect goroutine and waits for
\* the first connection; one goroutine calls GetChannel, another calls Close,
\* while the broker drops connections. No consumer runs.
InitConn ==
    /\ InitConsumer({}, {}, 0, 0, FALSE)
    /\ InitConnection(TRUE)
    /\ NoExt
    /\ autoAck = FALSE
    /\ handlers = {}
    /\ middleware = <<>>
    /\ dl = [d \in Tags |-> [id |-> d, key |-> "k"]]

NextConn ==
    \/ ConnectDialed /\ UNCHANGED <<consVars, extVars>>
    \/ ConnectRefused /\ UNCHANGED <<consVars, extVars>>
    \/ ConnectReady /\ UNCHANGED <<consVars, extVars>>
    \/ ReconnectDone /\ UNCHANGED <<consVars, extVars>>
    \/ ReconnectLost /\ UNCHANGED <<consVars, extVars>>
    \/ ReconnectCloseChannels /\ UNCHANGED <<consVars, extVars>>
    \/ NewConnectionReady /\ UNCHANGED <<consVars, extVars>>
    \/ NewConnectionTimeout /\ UNCHANGED <<consVars, extVars>>
    \/ \E name \in Names : GetChannelFast(name) /\ UNCHANGED <<consVars, extVars>>
    \/ GetChannelLock /\ UNCHANGED <<consVars, extVars>>
    \/ GetChannelOpen /\ UNCHANGED <<cfg, isRunning, stopCh, wg, ctxDone, st, sp, work, extVars>>
    \/ CloseCheck /\ UNCHANGED <<consVars, extVars>>
    \/ CloseDone /\ UNCHANGED <<cfg, isRunning, stopCh, wg, ctxDone, st, sp, work, extVars>>
    \/ CloseCloseChannels /\ UNCHANGED <<consVars, extVars>>
    \/ CloseConn /\ UNCHANGED <<consVars, extVars>>
    \/ Drop /\ UNCHANGED <<consVars, extVars>>
    \/ ChannelsDie /\ UNCHANGED <<consVars, extVars>>

SpecConn == InitConn /\ [][NextConn]_vars

\* The same, with the scheduler running every goroutine that can step and the
\* broker accepting a connect attempt that is repeated.
FairConn ==
    /\ InitConn /\ [][NextConn]_vars
    /\ WF_vars(ConnectReady /\ UNCHANGED <<consVars, extVars>>)
    /\ WF_vars(ReconnectLost /\ UNCHANGED <<consVars, extVars>>)
    /\ WF_vars(ReconnectCloseChannels /\ UNCHANGED <<consVars, extVars>>)
    /\ WF_vars(GetChannelOpen /\ UNCHANGED <<cfg, isRunning, stopCh, wg, ctxDone, st, sp, work, extVars>>)
    /\ SF_vars(ConnectDialed /\ UNCHANGED <<consVars, extVars>>)

\* Routing: handlers are registered on a consumer that is not running, and
\* findHandler is applied to routing keys.
RouteKeys == {"k", "j", "m"}

\* Consumer.Handle: c.handlers[routingKey] = handler; a handler is named by
\* the key it is registered under
Handle(key) ==
    /\ handlers' = handlers \cup {key}
    /\ UNCHANGED <<concurrency, autoAck, middleware, dl, isRunning, stopCh, wg, ctxDone,
                   st, sp, work, fault>>

\* Consumer.HandleAll: c.handlers["*"] = handler
HandleAll ==
    /\ handlers' = handlers \cup {Wildcard}
    /\ UNCHANGED <<concurrency, autoAck, middleware, dl, isRunning, stopCh, wg, ctxDone,
                   st, sp, work, fault>>

\* handleMessage's first line: handler := c.findHandler(delivery.RoutingKey)
Resolve(key) ==
    /\ last' = [op |-> "findHandler", in |-> <<key, handlers>>, out |-> findHandler(key)]
    /\ UNCHANGED consVars

InitRoute ==
    /\ InitConsumer({}, {}, 0, 0, FALSE)
    /\ NoConnection
    /\ NoExt
    /\ autoAck = FALSE
    /\ handlers = {}
    /\ middleware = <<>>
    /\ dl = [d \in Tags |-> [id |-> d, key |-> "k"]]

NextRoute ==
    \/ \E key \in RouteKeys : Handle(key) /\ UNCHANGED <<connVars, extVars>>
    \/ HandleAll /\ UNCHANGED <<connVars, extVars>>
    \/ \E key \in RouteKeys \cup {Wildcard} : Resolve(key) /\ UNCHANGED <<connVars, mgrVars, jobVars, brokerVars, rateVars, chanVars>>

SpecRoute == InitRoute /\ [][NextRoute]_vars

\* ========================================================= Manager
\* Queue, Publisher and Consumer are one function over three maps.

\* a second lookup that finds nothing
RecheckSkipped(kind, name) == 0

\* the double check after acquiring the write lock
Recheck(kind, name) == registries[kind][name]

\* RLock; if object, exists := m.<kind>[name]; exists { return object, nil }
ManagerLookup(m, kind, name, config) ==
    /\ Running /\ mcall[m].pc = "idle"
    /\ mutex = 0
    /\ mcall' = [mcall EXCEPT ![m] =
                   IF registries[kind][name] # 0
                   THEN [pc |-> "done", kind |-> kind, name |-> name,
                         config |-> config, ret |-> registries[kind][name]]
                   ELSE [pc |-> "lock", kind |-> kind, name |-> name,
                         config |-> config, ret |-> 0]]
    /\ UNCHANGED <<registries, mutex, objects, closing>>

\* m.mutex.Lock(); the double check
ManagerLock(m) ==
    /\ Running /\ mcall[m].pc = "lock"
    /\ mutex = 0
    /\ LET found == Recheck(mcall[m].kind, mcall[m].name)
       IN IF found # 0
          THEN /\ mcall' = [mcall EXCEPT ![m].pc = "done", ![m].ret = found]
               /\ UNCHANGED mutex
          ELSE /\ mcall' = [mcall EXCEPT ![m].pc = "build"]
               /\ mutex' = m
    /\ UNCHANGED <<registries, objects, closing>>

\* the default config when nil; NewQueue / NewPublisher / NewConsumer, which
\* fails when the declaration on the broker fails; m.<kind>[name] = object;
\* the deferred Unlock
ManagerBuild(m) ==
    /\ Running /\ mcall[m].pc = "build"
    /\ \E ok \in BOOLEAN :
         IF ok
         THEN /\ objects' = Append(objects, [kind |-> mcall[m].kind, name |-> mcall[m].name,
                                             config |-> mcall[m].config])
              /\ registries' = [registries EXCEPT ![mcall[m].kind][mcall[m].name] =
                                                       Len(objects) + 1]
              /\ mcall' = [mcall EXCEPT ![m].pc = "done",
                                        ![m].ret = Len(objects) + 1]
         ELSE /\ mcall' = [mcall EXCEPT ![m].pc = "done", ![m].ret = -1]
              /\ UNCHANGED <<registries, objects>>
    /\ mutex' = 0
    /\ UNCHANGED closing

\* Registries: goroutines call Queue, Publisher and Consumer on one Manager.
InitRegistry ==
    /\ InitConsumer({}, {}, 0, 0, FALSE)
    /\ NoConnection
    /\ last = NoCall
    /\ NoJobs
    /\ NoBroker /\ NoLimiter /\ NoNewChannel
    /\ InitManager(1..MaxCallers)
    /\ autoAck = FALSE
    /\ handlers = {}
    /\ middleware = <<>>
    /\ dl = [d \in Tags |-> [id |-> d, key |-> "k"]]

NextRegistry ==
    \/ \E m \in DOMAIN mcall, kind \in Kinds, name \in MgrNames, config \in Configs :
          ManagerLookup(m, kind, name, config) /\ UNCHANGED <<consVars, connVars, pureVars, jobVars, brokerVars, rateVars, chanVars>>
    \/ \E m \in DOMAIN mcall : ManagerLock(m) /\ UNCHANGED <<consVars, connVars, pureVars, jobVars, brokerVars, rateVars, chanVars>>
    \/ \E m \in DOMAIN mcall : ManagerBuild(m) /\ UNCHANGED <<consVars, connVars, pureVars, jobVars, brokerVars, rateVars, chanVars>>

SpecRegistry == InitRegistry /\ [][NextRegistry]_vars

\* ------------------------------------------- bodies: Publish and JSON
\* A text is a sequence of characters: letters, digits and the double quote
\* (DQ); a backslash (BS) appears where encoding/json writes an escape.
DQ == "dq"
BS == "bs"
Chars == {"a", "1", DQ}
Texts == UNION {[1..n -> Chars] : n \in 0..MaxText}
Digits == {"1"}
JobTypes == {"t1", "t2"}

\* Go values handed to Publish: a string, a []byte, a number, a Job with a
\* string or number payload (v holds its type, the payload's kind and the
\* payload), and a value encoding/json cannot encode (a channel)
String(s) == [t |-> "string", v |-> s]
ByteSlice(s) == [t |-> "bytes", v |-> s]
Number(s) == [t |-> "number", v |-> s]
JobOf(type, payload) == [t |-> "job", v |-> <<type, payload.t>> \o payload.v]
Chan == [t |-> "chan", v |-> <<>>]
JobType(job) == job.v[1]
JobPayload(job) == [t |-> job.v[2], v |-> SubSeq(job.v, 3, Len(job.v))]
Payloads == {String(s) : s \in {<<>>, <<"a">>}} \cup {Number(<<"1">>)}
Values == {String(s) : s \in Texts} \cup {ByteSlice(s) : s \in Texts}
          \cup {Number(s) : s \in {<<"1">>, <<"1", "1">>}}
          \cup {JobOf(type, payload) : type \in JobTypes, payload \in Payloads}
          \cup {Chan}
JSONError == [t |-> "error", v |-> <<>>]

\* encoding/json's string escape: a double quote is written as \"
RECURSIVE Escape(_)
Escape(s) ==
    IF s = <<>> THEN <<>>
    ELSE (IF Head(s) = DQ THEN <<BS, DQ>> ELSE <<Head(s)>>) \o Escape(Tail(s))

\* the reverse, for the inside of a JSON string: a bare double quote or a
\* backslash followed by nothing it can escape is a syntax error ("invalid")
RECURSIVE Unescape(_)
Unescape(s) ==
    IF s = <<>> THEN <<>>
    ELSE IF Head(s) = DQ THEN <<"invalid">>
    ELSE IF Head(s) = BS
    THEN IF Len(s) >= 2 /\ s[2] = DQ
         THEN LET rest == Unescape(Tail(Tail(s)))
              IN IF rest = <<"invalid">> THEN rest ELSE <<DQ>> \o rest
         ELSE <<"invalid">>
    ELSE LET rest == Unescape(Tail(s))
         IN IF rest = <<"invalid">> THEN rest ELSE <<Head(s)>> \o rest

\* json.Marshal: a string in quotes, a number in digits, a Job as the object
\* {"type":...,"payload":...}, written here as "{", the type, ":", the
\* payload's encoding, "}"; a channel has no encoding
RECURSIVE Marshal(_)
Marshal(value) ==
    IF value.t = "string" THEN <<DQ>> \o Escape(value.v) \o <<DQ>>
    ELSE IF value.t = "number" THEN value.v
    ELSE IF value.t = "job"
    THEN <<"{", JobType(value), ":">> \o Marshal(JobPayload(value)) \o <<"}">>
    ELSE <<"invalid">>

\* json.Unmarshal into an interface{}: a JSON string gives a string, a JSON
\* number a number, anything else here is a syntax error
Decode(body) ==
    IF Len(body) >= 2 /\ body[1] = DQ /\ body[Len(body)] = DQ
    THEN LET inner == Unescape(SubSeq(body, 2, Len(body) - 1))
         IN IF inner = <<"invalid">> THEN JSONError ELSE String(inner)
    ELSE IF body # <<>> /\ \A i \in 1..Len(body) : body[i] \in Digits
    THEN Number(body)
    ELSE JSONError

\* base64.StdEncoding.DecodeString for texts shorter than four characters:
\* only the empty text is valid
Base64Decode(s) == IF s = <<>> THEN ByteSlice(<<>>) ELSE JSONError

\* json.Unmarshal(body, v) for v pointing to a variable of the given type: a
\* string takes a JSON string, a []byte a JSON string holding base64, a number
\* a JSON number, a Job an object whose payload goes into an interface{}
Unmarshal(body, type) ==
    IF type = "job"
    THEN IF Len(body) >= 4 /\ body[1] = "{" /\ body[2] \in JobTypes /\ body[3] = ":"
                          /\ body[Len(body)] = "}"
         THEN LET payload == Decode(SubSeq(body, 4, Len(body) - 1))
              IN IF payload = JSONError THEN JSONError ELSE JobOf(body[2], payload)
         ELSE JSONError
    ELSE LET any == Decode(body)
         IN IF any = JSONError THEN JSONError
            ELSE IF type = "string" THEN IF any.t = "string" THEN any ELSE JSONError
            ELSE IF type = "bytes"
            THEN IF any.t = "string" THEN Base64Decode(any.v) ELSE JSONError
            ELSE IF type = "number" THEN IF any.t = "number" THEN any ELSE JSONError
            ELSE JSONError

\* Delivery.JSON(v): json.Unmarshal(d.Body, v)
JSON(body, type) == Unmarshal(body, type)

\* the content types a caller gives a Message; "" is none
ContentTypes == {"", "application/json", "text/xml"}
Messages == [Body : Values, ContentType : ContentTypes, Persistent : BOOLEAN]
PublishError == [err |-> TRUE, Body |-> <<>>, ContentType |-> "", DeliveryMode |-> 0]

\* a Publish whose switch has no case for string: a string is encoded as JSON
PublishEncodingStrings(message) ==
    IF message.Body.t = "bytes"
    THEN [err |-> FALSE, Body |-> message.Body.v,
          ContentType |-> IF message.ContentType = "" THEN "text/plain"
                          ELSE message.ContentType,
          DeliveryMode |-> IF message.Persistent THEN 2 ELSE 1]
    ELSE IF Marshal(message.Body) = <<"invalid">> THEN PublishError
    ELSE [err |-> FALSE, Body |-> Marshal(message.Body),
          ContentType |-> IF message.ContentType = "" THEN "application/json"
                          ELSE message.ContentType,
          DeliveryMode |-> IF message.Persistent THEN 2 ELSE 1]

\* Publisher.Publish: the body switch, the content type defaults, the
\* delivery mode; what goes to ch.Publish, or the serialisation error
Publish(message) ==
    IF message.Body.t \in {"bytes", "string"}
    THEN [err |-> FALSE, Body |-> message.Body.v,
          ContentType |-> IF message.ContentType = "" THEN "text/plain"
                          ELSE message.ContentType,
          DeliveryMode |-> IF message.Persistent THEN 2 ELSE 1]
    ELSE IF Marshal(message.Body) = <<"invalid">> THEN PublishError
    ELSE [err |-> FALSE, Body |-> Marshal(message.Body),
          ContentType |-> IF message.ContentType = "" THEN "application/json"
                          ELSE message.ContentType,
          DeliveryMode |-> IF message.Persistent THEN 2 ELSE 1]

\* Publisher.PublishJSON, which Manager.Publish and Manager.PublishToQueue call
PublishJSON(data) ==
    Publish([Body |-> data, ContentType |-> "application/json", Persistent |-> TRUE])

\* Manager.PublishJob
PublishJob(jobType, payload) == PublishJSON(JobOf(jobType, payload))

\* a Publish that sends once more when ch.Publish returned an error
PublishOnceMore(message, chOk, sendOk) ==
    IF ~chOk THEN [ret |-> "failed to get channel", sends |-> 0]
    ELSE IF Publish(message).err
    THEN [ret |-> "failed to serialize message body", sends |-> 0]
    ELSE IF sendOk THEN [ret |-> "nil", sends |-> 1]
    ELSE [ret |-> "nil", sends |-> 2]

\* Publisher.Publish as its caller and the broker see it: p.conn.NewChannel()
\* gives a channel or not (chOk), the body is serialised or not, ch.Publish is
\* called and returns nil or an error (sendOk); ret is what Publish returns,
\* sends the number of ch.Publish calls it made
PublishOnce(message, chOk, sendOk) ==
    IF ~chOk THEN [ret |-> "failed to get channel", sends |-> 0]
    ELSE IF Publish(message).err
    THEN [ret |-> "failed to serialize message body", sends |-> 0]
    ELSE IF sendOk THEN [ret |-> "nil", sends |-> 1]
    ELSE [ret |-> "send error", sends |-> 1]

\* a program calls Publish; the connection and the broker answer as they may
PublishAttempt(message, chOk, sendOk) ==
    /\ last.op = "none"
    /\ last' = [op |-> "PublishAttempt", in |-> <<message, chOk, sendOk>>,
                out |-> PublishOnce(message, chOk, sendOk)]

\* a program calls Publish with a message of its own
PublishCall(message) ==
    /\ last.op = "none"
    /\ last' = [op |-> "Publish", in |-> <<message>>, out |-> Publish(message)]

\* a program publishes data on the JSON path; the consumer decodes the body
\* it receives into a variable of data's type
RoundTrip(data) ==
    /\ last.op = "none"
    /\ last' = [op |-> "RoundTrip", in |-> <<data>>,
                out |-> IF PublishJSON(data).err THEN JSONError
                        ELSE JSON(PublishJSON(data).Body, data.t)]

\* ------------------------------------------------ Connection.NewChannel
\* the clock moves on
ClockTick ==
    /\ clock < MaxClock
    /\ clock' = clock + 1
    /\ UNCHANGED nc

\* name := fmt.Sprintf("channel_%d", time.Now().UnixNano())
NewChannel(k) ==
    /\ nc[k].pc = "idle" /\ nc[k].n < MaxGets
    /\ nc' = [nc EXCEPT ![k].pc = "get", ![k].name = clock]
    /\ UNCHANGED <<clock, connVars>>

\* return c.GetChannel(name). GetChannel decides under channelsMux, so its
\* result is that of one step: the entry under the name when it is there and
\* not closed; else an error when not connected or when conn.Channel()
\* fails; else the channel it opens and stores under the name.
NewChannelGetChannel(k) ==
    /\ nc[k].pc = "get"
    /\ channelsMux = "free"
    /\ LET name == nc[k].name
       IN IF Usable(channels[name])
          THEN /\ nc' = [nc EXCEPT ![k].pc = "use", ![k].ch = channels[name]]
               /\ UNCHANGED <<channels, chConn>>
          ELSE \E opened \in IF isConnected /\ conn \notin connClosed
                              THEN BOOLEAN ELSE {FALSE} :
                  IF opened
                  THEN /\ chConn' = Append(chConn, conn)
                       /\ channels' = [channels EXCEPT ![name] = Len(chConn) + 1]
                       /\ nc' = [nc EXCEPT ![k].pc = "use", ![k].ch = Len(chConn) + 1]
                  ELSE /\ nc' = [nc EXCEPT ![k].pc = "idle", ![k].n = @ + 1]
                       /\ UNCHANGED <<channels, chConn>>
    /\ UNCHANGED <<clock, isConnected, conn, connClosed, dials, dialFails, done,
                   notifyReady, chClosed, channelsMux, built, lp, cl, gt, got>>

\* the caller is done with its channel: defer ch.Close(), on the channel
\* itself; Connection.CloseChannel, which deletes the entry, has no caller
ChClose(k) ==
    /\ nc[k].pc = "use"
    /\ chClosed' = chClosed \cup {nc[k].ch}
    /\ nc' = [nc EXCEPT ![k].pc = "idle", ![k].n = @ + 1]
    /\ UNCHANGED <<clock, isConnected, conn, connClosed, dials, dialFails, done,
                   notifyReady, channels, chConn, channelsMux, built, lp, cl, gt, got>>

\* Channels: on one open physical connection several goroutines (workers in
\* processMessages, Publish calls) take a channel with NewChannel, use it and
\* close it, again and again; the map is keyed by the clock values read.
InitChannels ==
    /\ InitConsumer({}, {}, 0, 0, FALSE)
    /\ autoAck = FALSE
    /\ handlers = {}
    /\ middleware = <<>>
    /\ dl = [d \in Tags |-> [id |-> d, key |-> "k"]]
    /\ isConnected = TRUE /\ conn = 1 /\ connClosed = {} /\ dials = 1
    /\ dialFails = 0 /\ done = "open" /\ notifyReady = 0
    /\ channels = [t \in 1..MaxClock |-> 0]
    /\ chConn = <<>> /\ chClosed = {} /\ channelsMux = "free"
    /\ built = "ok" /\ lp = "select"
    /\ cl = [pc |-> "idle", n |-> 0, ret |-> "none"]
    /\ gt = [pc |-> "idle", n |-> 0, name |-> "a"]
    /\ got = [ch |-> 0, conn |-> 0, up |-> FALSE]
    /\ last = NoCall /\ NoManager /\ NoJobs /\ NoBroker /\ NoLimiter
    /\ clock = 1
    /\ nc = [k \in 1..MaxCallers |-> [pc |-> "idle", name |-> 0, ch |-> 0, n |-> 0]]

NextChannels ==
    \/ ClockTick /\ UNCHANGED <<consVars, connVars, pureVars, mgrVars, jobVars, brokerVars, rateVars>>
    \/ \E k \in DOMAIN nc : NewChannel(k) /\ UNCHANGED <<consVars, pureVars, mgrVars, jobVars, brokerVars, rateVars>>
    \/ \E k \in DOMAIN nc : NewChannelGetChannel(k) /\ UNCHANGED <<consVars, pureVars, mgrVars, jobVars, brokerVars, rateVars>>
    \/ \E k \in DOMAIN nc : ChClose(k) /\ UNCHANGED <<consVars, pureVars, mgrVars, jobVars, brokerVars, rateVars>>

SpecChannels == InitChannels /\ [][NextChannels]_vars

\* ------------------------------------------ Connection.WaitForConnection
\* the connects that have completed (isConnected set, notifyReady signalled)
Connects == dials - (IF lp = "ready" THEN 1 ELSE 0)

\* if c.isConnected { return nil }; else on to the select
WaitForConnection ==
    /\ Running /\ built = "ok"
    /\ last.op = "none"
    /\ last' = [op |-> "WaitForConnection", in |-> <<Connects, notifyReady>>,
                out |-> IF isConnected THEN "nil" ELSE "waiting"]
    /\ UNCHANGED connVars

\* select: case <-c.notifyReady: return nil
\*         case <-ctx.Done(): return an error
WaitForConnectionSelect ==
    /\ Running
    /\ last.op = "WaitForConnection" /\ last.out = "waiting"
    /\ \/ /\ notifyReady = 1
          /\ notifyReady' = 0
          /\ last' = [last EXCEPT !.out = "nil"]
       \/ /\ last' = [last EXCEPT !.out = "timeout waiting for RabbitMQ connection"]
          /\ UNCHANGED notifyReady
    /\ UNCHANGED <<isConnected, conn, connClosed, dials, dialFails, done,
                   channels, chConn, chClosed, channelsMux, built, lp, cl, gt, got>>

\* Wait: the connection some time after NewConnection returned it, Connected;
\* notifyReady holds a signal when the connection has reconnected since (no
\* one receives the signal of a reconnect). The broker drops connections, the
\* reconnect goroutine reconnects, one goroutine gets channels and one calls
\* WaitForConnection.
InitWait ==
    /\ InitConsumer({}, {}, 0, 0, FALSE)
    /\ autoAck = FALSE
    /\ handlers = {}
    /\ middleware = <<>>
    /\ dl = [d \in Tags |-> [id |-> d, key |-> "k"]]
    /\ isConnected = TRUE /\ conn = 1 /\ connClosed = {} /\ dials = 1
    /\ dialFails = 0 /\ done = "open"
    /\ notifyReady \in {0, 1}
    /\ channels = NoChannels
    /\ chConn = <<>> /\ chClosed = {} /\ channelsMux = "free"
    /\ built = "ok" /\ lp = "select"
    /\ cl = [pc |-> "idle", n |-> 0, ret |-> "none"]
    /\ gt = [pc |-> "idle", n |-> 0, name |-> "a"]
    /\ got = [ch |-> 0, conn |-> 0, up |-> FALSE]
    /\ NoExt

NextWait ==
    \/ ConnectDialed /\ UNCHANGED <<consVars, extVars>>
    \/ ConnectRefused /\ UNCHANGED <<consVars, extVars>>
    \/ ConnectReady /\ UNCHANGED <<consVars, extVars>>
    \/ ReconnectLost /\ UNCHANGED <<consVars, extVars>>
    \/ ReconnectCloseChannels /\ UNCHANGED <<consVars, extVars>>
    \/ Drop /\ UNCHANGED <<consVars, extVars>>
    \/ \E name \in Names : GetChannelFast(name) /\ UNCHANGED <<consVars, extVars>>
    \/ GetChannelLock /\ UNCHANGED <<consVars, extVars>>
    \/ GetChannelOpen /\ UNCHANGED <<cfg, isRunning, stopCh, wg, ctxDone, st, sp, work, extVars>>
    \/ ChannelsDie /\ UNCHANGED <<consVars, extVars>>
    \/ WaitForConnection /\ UNCHANGED <<consVars, mgrVars, jobVars, brokerVars, rateVars, chanVars>>
    \/ WaitForConnectionSelect /\ UNCHANGED <<consVars, mgrVars, jobVars, brokerVars, rateVars, chanVars>>

SpecWait == InitWait /\ [][NextWait]_vars

\* ------------------------------------------------ registration
\* the ManagerConfig values New hands to NewManagerFromConfig (durations are
\* strings there)
ManagerConfigs ==
    [ReconnectDelay : {"2s", "5s"}, ReconnectAttempts : {0, 3},
     EnableHeartbeat : BOOLEAN, HeartbeatInterval : {"10s", "30s"},
     ChannelPoolSize : {0, 4},
     AutoDeclareQueues : BOOLEAN, AutoDeclareExchange : BOOLEAN]

\* DefaultConfig()
DefaultConfig ==
    [ReconnectDelay |-> "5s", ReconnectAttempts |-> 10,
     EnableHeartbeat |-> TRUE, HeartbeatInterval |-> "10s",
     ChannelPoolSize |-> 10,
     AutoDeclareQueues |-> TRUE, AutoDeclareExchange |-> TRUE]

\* NewManagerFromConfig: the defaults, over which it copies the attempt cap
\* and the pool size when positive, and the two auto-declare flags; the
\* delay, the heartbeat flag and its interval are not copied
NewManagerFromConfig(config) ==
    [DefaultConfig EXCEPT
       !.ReconnectAttempts = IF config.ReconnectAttempts > 0
                             THEN config.ReconnectAttempts ELSE @,
       !.ChannelPoolSize = IF config.ChannelPoolSize > 0
                           THEN config.ChannelPoolSize ELSE @,
       !.AutoDeclareQueues = config.AutoDeclareQueues,
       !.AutoDeclareExchange = config.AutoDeclareExchange]

\* what the Connection built with a Config does with it: handleReconnect
\* sleeps config.ReconnectDelay after a failed connect; connect dials with
\* Heartbeat: config.HeartbeatInterval, whatever EnableHeartbeat says;
\* NewConnection waits for the first connection for 10 seconds, whatever
\* ReconnectAttempts says; the declare paths read the auto-declare flags
ConnectionUses(config) ==
    [reconnectSleep |-> config.ReconnectDelay,
     heartbeat |-> config.HeartbeatInterval,
     initialBound |-> <<"time", "10s">>,
     autoDeclareQueues |-> config.AutoDeclareQueues,
     autoDeclareExchange |-> config.AutoDeclareExchange]

\* New(config): NewManagerFromConfig, NewManager, NewConnection
Register(config) ==
    /\ last.op = "none"
    /\ last' = [op |-> "New", in |-> <<config>>,
                out |-> ConnectionUses(NewManagerFromConfig(config))]

\* Codec: one call of Publish, or of PublishJSON followed by Delivery.JSON;
\* the calls keep no state, so one call per behaviour reaches every result
InitCodec ==
    /\ InitConsumer({}, {}, 0, 0, FALSE)
    /\ NoConnection
    /\ NoExt
    /\ autoAck = FALSE
    /\ handlers = {}
    /\ middleware = <<>>
    /\ dl = [d \in Tags |-> [id |-> d, key |-> "k"]]

NextCodec ==
    \/ \E message \in Messages : PublishCall(message) /\ UNCHANGED <<consVars, connVars, mgrVars, jobVars, brokerVars, rateVars, chanVars>>
    \/ \E data \in Values : RoundTrip(data) /\ UNCHANGED <<consVars, connVars, mgrVars, jobVars, brokerVars, rateVars, chanVars>>
    \/ \E message \in Messages, chOk \in BOOLEAN, sendOk \in BOOLEAN :
          PublishAttempt(message, chOk, sendOk) /\ UNCHANGED <<consVars, connVars, mgrVars, jobVars, brokerVars, rateVars, chanVars>>
    \/ \E config \in ManagerConfigs : Register(config) /\ UNCHANGED <<consVars, connVars, mgrVars, jobVars, brokerVars, rateVars, chanVars>>

SpecCodec == InitCodec /\ [][NextCodec]_vars

\* ------------------------------------------------- Manager.ConsumeJobs
\* a router that hands an unknown type to whatever handler the map holds
DispatchAny(jobType) ==
    IF jobHandlers # {} THEN CHOOSE h \in jobHandlers : TRUE ELSE "nil"

\* handler, exists := handlers[job.Type]
Dispatch(jobType) == IF jobType \in jobHandlers THEN jobType ELSE "nil"

\* the router ConsumeJobs registers with HandleAll: delivery.JSON(&job), whose
\* error it returns; no handler for job.Type: return nil; else the handler is
\* called with the delivery
JobRouter(t) ==
    /\ Running /\ th[t].pc = "run"
    /\ LET d == th[t].d
           job == JSON(dl[d].body, "job")
       IN IF job = JSONError
          THEN /\ th' = [th EXCEPT ![t] = Advance([@ EXCEPT !.pc = "ret", !.val = "err",
                                                            !.pos = Len(middleware)])]
               /\ outcome' = [outcome EXCEPT ![d] = "err"]
               /\ UNCHANGED ran
          ELSE IF Dispatch(JobType(job)) = "nil"
          THEN /\ th' = [th EXCEPT ![t] = Advance([@ EXCEPT !.pc = "ret", !.val = "nil",
                                                            !.pos = Len(middleware)])]
               /\ outcome' = [outcome EXCEPT ![d] = "nil"]
               /\ UNCHANGED ran
          ELSE /\ th' = [th EXCEPT ![t].pc = "job"]
               /\ ran' = [ran EXCEPT ![d] = Append(@, Dispatch(JobType(job)))]
               /\ UNCHANGED outcome
    /\ UNCHANGED <<cfg, isRunning, stopCh, wg, ctxDone, st, sp, queue, acks, invoked,
                   takenBy, processed, doneCh, timeoutRet, fault, jobHandlers>>

\* return handler(delivery): the job's handler returns nil or an error, or panics
JobHandlerReturn(t) ==
    /\ Running /\ th[t].pc = "job"
    /\ \E out \in Outcomes :
         /\ th' = [th EXCEPT ![t] = Advance([@ EXCEPT !.pc = "ret", !.val = out,
                                                      !.pos = Len(middleware)])]
         /\ outcome' = [outcome EXCEPT ![th[t].d] = out]
    /\ UNCHANGED <<cfg, isRunning, stopCh, wg, ctxDone, st, sp, queue, acks, invoked,
                   takenBy, processed, doneCh, timeoutRet, fault>>

\* what lands in a job queue: jobs published with PublishJob, of either type
\* with a string payload and of the handled type with a number payload, and a
\* string published with PublishToQueue; sent is the value published
JobDeliveries ==
    {[id |-> 1, key |-> "k", sent |-> value, body |-> PublishJSON(value).Body] :
        value \in {JobOf(type, String(<<"a">>)) : type \in JobTypes}
                  \cup {JobOf("t1", Number(<<"1">>)), String(<<"a">>)}}

\* Jobs: ConsumeJobs on a queue has cached a consumer, registered the router
\* for every routing key and started it; the map has a handler for one type.
InitJobs ==
    /\ InitConsumer({1}, {}, WorkConcurrency, MaxDeliveries, TRUE)
    /\ NoConnection
    /\ last = NoCall
    /\ NoManager
    /\ NoBroker /\ NoLimiter /\ NoNewChannel
    /\ jobHandlers = {"t1"}
    /\ ran = [d \in Tags |-> <<>>]
    /\ autoAck \in BOOLEAN
    /\ handlers = {Wildcard}
    /\ middleware = <<>>
    /\ dl \in [Tags -> JobDeliveries]

NextJobs ==
    \/ \E t \in DOMAIN th : WorkerOpen(t) /\ UNCHANGED <<connVars, extVars>>
    \/ \E t \in DOMAIN th : StreamClosed(t) /\ UNCHANGED <<connVars, extVars>>
    \/ \E t \in DOMAIN th : TakeDelivery(t) /\ UNCHANGED <<connVars, extVars>>
    \/ \E t \in DOMAIN th : Call(t) /\ UNCHANGED <<connVars, extVars>>
    \/ \E t \in DOMAIN th : JobRouter(t) /\ UNCHANGED <<connVars, pureVars, mgrVars, brokerVars, rateVars, chanVars>>
    \/ \E t \in DOMAIN th : JobHandlerReturn(t) /\ UNCHANGED <<connVars, extVars>>
    \/ \E t \in DOMAIN th : Return(t) /\ UNCHANGED <<connVars, extVars>>
    \/ \E t \in DOMAIN th : AckCall(t) /\ UNCHANGED <<connVars, extVars>>
    \/ \E t \in DOMAIN th : NackCall(t) /\ UNCHANGED <<connVars, extVars>>

SpecJobs == InitJobs /\ [][NextJobs]_vars

\* ------------------------------- ConsumeJobs on a running consumer
\* Manager.ConsumeJobs(ctx, queueName, handlers) for a queue whose consumer
\* is cached, from m.Consumer to the return of consumer.Start: HandleAll
\* stores a router over the map given under "*", then Start finds isRunning
\* set and returns its error
ConsumeJobs(hs) ==
    /\ Running /\ isRunning
    /\ last.op = "none"
    /\ handlers' = handlers \cup {Wildcard}
    /\ jobHandlers' = hs
    /\ last' = [op |-> "ConsumeJobs", in |-> <<hs>>, out |-> ErrAlreadyRunning]
    /\ UNCHANGED <<concurrency, autoAck, middleware, dl, isRunning, stopCh, wg, ctxDone,
                   st, sp, work, fault, ran>>

\* the handler maps a caller passes
JobHandlerMaps == SUBSET JobTypes

\* Jobs, with one more goroutine that calls ConsumeJobs for the same queue
\* while the consumer runs.
NextJobsAgain ==
    \/ \E t \in DOMAIN th : WorkerOpen(t) /\ UNCHANGED <<connVars, extVars>>
    \/ \E t \in DOMAIN th : StreamClosed(t) /\ UNCHANGED <<connVars, extVars>>
    \/ \E t \in DOMAIN th : TakeDelivery(t) /\ UNCHANGED <<connVars, extVars>>
    \/ \E t \in DOMAIN th : Call(t) /\ UNCHANGED <<connVars, extVars>>
    \/ \E t \in DOMAIN th : JobRouter(t) /\ UNCHANGED <<connVars, pureVars, mgrVars, brokerVars, rateVars, chanVars>>
    \/ \E t \in DOMAIN th : JobHandlerReturn(t) /\ UNCHANGED <<connVars, extVars>>
    \/ \E t \in DOMAIN th : Return(t) /\ UNCHANGED <<connVars, extVars>>
    \/ \E t \in DOMAIN th : AckCall(t) /\ UNCHANGED <<connVars, extVars>>
    \/ \E t \in DOMAIN th : NackCall(t) /\ UNCHANGED <<connVars, extVars>>
    \/ \E hs \in JobHandlerMaps : ConsumeJobs(hs) /\ UNCHANGED <<connVars, mgrVars, brokerVars, rateVars, chanVars>>

SpecJobsAgain == InitJobs /\ [][NextJobsAgain]_vars

\* -------------------------------- the broker and a worker's stream
\* The queue holds one message, published persistent and accepted. The broker
\* delivers it under a fresh tag each time; with autoAck=false it keeps the
\* message until a tag is acknowledged on a live stream, and delivers it again
\* when the stream of an unsettled tag dies or the tag is Nacked with requeue.
Live(d) == d = broker.tags /\ d \notin broker.lost /\ broker.at = "out"

\* the channel or the connection under worker w's stream is lost: the tag w
\* holds unsettled goes back to the queue; the stream's deliveries channel gets
\* closed
StreamLost(w) ==
    /\ Running /\ IsWorker(w) /\ th[w].pc \notin {"none", "loop", "exited"}
    /\ w \notin broker.down
    /\ broker.losses < MaxLosses
    /\ broker' = IF Live(th[w].d)
                 THEN [broker EXCEPT !.down = @ \cup {w}, !.losses = @ + 1,
                                     !.lost = @ \cup {th[w].d}, !.at = "requeue"]
                 ELSE [broker EXCEPT !.down = @ \cup {w}, !.losses = @ + 1]

\* the broker puts the message on a stream again, under the next tag
BrokerRedeliver ==
    /\ Running /\ broker.at = "requeue"
    /\ broker.tags < MaxDeliveries
    /\ queue' = Append(queue, broker.tags + 1)
    /\ broker' = [broker EXCEPT !.at = "out", !.tags = @ + 1]
    /\ UNCHANGED <<cfg, isRunning, stopCh, wg, ctxDone, st, sp, th, acks, invoked,
                   outcome, takenBy, processed, doneCh, timeoutRet, fault>>

\* processMessages opens a channel and consumes: the worker holds a stream
OpenStream(w) ==
    /\ WorkerOpen(w)
    /\ broker' = [broker EXCEPT !.down = IF th'[w].pc = "select" THEN @ \ {w} ELSE @]

\* a delivery arrives on a stream that is alive
Receive(w) == w \notin broker.down /\ TakeDelivery(w) /\ UNCHANGED broker

\* the deliveries channel of a dead stream is closed
DeadStreamClosed(w) == w \in broker.down /\ StreamClosed(w) /\ UNCHANGED broker

\* delivery.Ack: an error on a dead stream; on a live one the broker drops
\* the message
AckOnStream(w) ==
    /\ AckCall(w)
    /\ IF Live(th[w].d)
       THEN th'[w].pc = "select" /\ broker' = [broker EXCEPT !.at = "gone"]
       ELSE th'[w].pc = "nack" /\ UNCHANGED broker

\* d.Nack(false, true): on a live stream the broker requeues the message
NackOnStream(w) ==
    /\ NackCall(w)
    /\ broker' = IF Live(th[w].d) THEN [broker EXCEPT !.at = "requeue"] ELSE broker

RedeliverWorkers == {1} \X (1..WorkConcurrency)

\* Redelivery: a running consumer with autoAck=false and a handler for the
\* message's routing key; streams get lost at any moment.
InitRedeliver ==
    /\ InitConsumer({1}, {}, WorkConcurrency, 1, TRUE)
    /\ NoConnection
    /\ last = NoCall
    /\ NoManager
    /\ NoJobs
    /\ NoLimiter
    /\ NoNewChannel
    /\ broker = [at |-> "out", tags |-> 1, lost |-> {}, down |-> {}, losses |-> 0]
    /\ autoAck = FALSE
    /\ handlers = {"k"}
    /\ middleware = <<>>
    /\ dl = [d \in Tags |-> [id |-> 1, key |-> "k"]]

NextRedeliver ==
    \/ \E w \in RedeliverWorkers : StreamLost(w) /\ UNCHANGED <<consVars, connVars, pureVars, mgrVars, jobVars, rateVars, chanVars>>
    \/ BrokerRedeliver /\ UNCHANGED <<connVars, pureVars, mgrVars, jobVars, rateVars, chanVars>>
    \/ \E w \in RedeliverWorkers : OpenStream(w) /\ UNCHANGED <<connVars, pureVars, mgrVars, jobVars, rateVars, chanVars>>
    \/ \E w \in RedeliverWorkers : Receive(w) /\ UNCHANGED <<connVars, pureVars, mgrVars, jobVars, rateVars, chanVars>>
    \/ \E w \in RedeliverWorkers : DeadStreamClosed(w) /\ UNCHANGED <<connVars, pureVars, mgrVars, jobVars, rateVars, chanVars>>
    \/ \E w \in RedeliverWorkers : Call(w) /\ UNCHANGED <<connVars, extVars>>
    \/ \E w \in RedeliverWorkers : HandlerReturn(w) /\ UNCHANGED <<connVars, extVars>>
    \/ \E w \in RedeliverWorkers : Return(w) /\ UNCHANGED <<connVars, extVars>>
    \/ \E w \in RedeliverWorkers : AckOnStream(w) /\ UNCHANGED <<connVars, pureVars, mgrVars, jobVars, rateVars, chanVars>>
    \/ \E w \in RedeliverWorkers : NackOnStream(w) /\ UNCHANGED <<connVars, pureVars, mgrVars, jobVars, rateVars, chanVars>>

SpecRedeliver == InitRedeliver /\ [][NextRedeliver]_vars

\* every goroutine that can take a step is scheduled, and the broker delivers
\* what it has queued
FairRedeliver ==
    /\ SpecRedeliver
    /\ WF_vars(BrokerRedeliver /\ UNCHANGED <<connVars, pureVars, mgrVars, jobVars, rateVars, chanVars>>)
    /\ \A w \in RedeliverWorkers :
          /\ WF_vars(OpenStream(w) /\ UNCHANGED <<connVars, pureVars, mgrVars, jobVars, rateVars, chanVars>>)
          /\ WF_vars(Receive(w) /\ UNCHANGED <<connVars, pureVars, mgrVars, jobVars, rateVars, chanVars>>)
          /\ WF_vars(DeadStreamClosed(w) /\ UNCHANGED <<connVars, pureVars, mgrVars, jobVars, rateVars, chanVars>>)
          /\ WF_vars(Call(w) /\ UNCHANGED <<connVars, extVars>>)
          /\ WF_vars(HandlerReturn(w) /\ UNCHANGED <<connVars, extVars>>)
          /\ WF_vars(Return(w) /\ UNCHANGED <<connVars, extVars>>)
          /\ WF_vars(AckOnStream(w) /\ UNCHANGED <<connVars, pureVars, mgrVars, jobVars, rateVars, chanVars>>)
          /\ WF_vars(NackOnStream(w) /\ UNCHANGED <<connVars, pureVars, mgrVars, jobVars, rateVars, chanVars>>)

\* ------------------------------------- a job queue and its broker
\* JobQueue: ConsumeJobs consumes a queue that holds one message (a job of
\* either type, or a body that is no job envelope); the consumer it got from
\* Manager.Consumer(queueName, nil) has autoAck=false; every tag is a delivery
\* of the same message.
InitJobQueue ==
    /\ InitConsumer({1}, {}, WorkConcurrency, 1, TRUE)
    /\ NoConnection
    /\ last = NoCall
    /\ NoManager
    /\ NoLimiter
    /\ NoNewChannel
    /\ broker = [at |-> "out", tags |-> 1, lost |-> {}, down |-> {}, losses |-> 0]
    /\ jobHandlers = {"t1"}
    /\ ran = [d \in Tags |-> <<>>]
    /\ autoAck = FALSE
    /\ handlers = {Wildcard}
    /\ middleware = <<>>
    /\ \E m \in JobDeliveries : dl = [d \in Tags |-> m]

\* the broker redelivers when every tag the model has was used: no goroutine
\* holds a delivery any more, what is recorded of the settled deliveries is
\* forgotten and the message goes out under the first tag again
BrokerRedeliverAgain ==
    /\ Running /\ broker.at = "requeue"
    /\ broker.tags = MaxDeliveries
    /\ \A t \in DOMAIN th : th[t].d = NoThread.d
    /\ queue' = <<1>>
    /\ broker' = [broker EXCEPT !.at = "out", !.tags = 1, !.lost = {}]
    /\ acks' = [d \in Tags |-> <<>>]
    /\ invoked' = [d \in Tags |-> 0]
    /\ outcome' = [d \in Tags |-> "none"]
    /\ takenBy' = [d \in Tags |-> <<0, 0>>]
    /\ processed' = {}
    /\ ran' = [d \in Tags |-> <<>>]
    /\ UNCHANGED <<cfg, isRunning, stopCh, wg, ctxDone, st, sp, th, doneCh, timeoutRet,
                   fault, jobHandlers>>

NextJobQueue ==
    \/ BrokerRedeliver /\ UNCHANGED <<connVars, pureVars, mgrVars, jobVars, rateVars, chanVars>>
    \/ BrokerRedeliverAgain /\ UNCHANGED <<connVars, pureVars, mgrVars, rateVars, chanVars>>
    \/ \E w \in RedeliverWorkers : StreamLost(w) /\ UNCHANGED <<consVars, connVars, pureVars, mgrVars, jobVars, rateVars, chanVars>>
    \/ \E w \in RedeliverWorkers : OpenStream(w) /\ UNCHANGED <<connVars, pureVars, mgrVars, jobVars, rateVars, chanVars>>
    \/ \E w \in RedeliverWorkers : Receive(w) /\ UNCHANGED <<connVars, pureVars, mgrVars, jobVars, rateVars, chanVars>>
    \/ \E w \in RedeliverWorkers : DeadStreamClosed(w) /\ UNCHANGED <<connVars, pureVars, mgrVars, jobVars, rateVars, chanVars>>
    \/ \E w \in RedeliverWorkers : Call(w) /\ UNCHANGED <<connVars, extVars>>
    \/ \E w \in RedeliverWorkers : JobRouter(w) /\ UNCHANGED <<connVars, pureVars, mgrVars, brokerVars, rateVars, chanVars>>
    \/ \E w \in RedeliverWorkers : JobHandlerReturn(w) /\ UNCHANGED <<connVars, extVars>>
    \/ \E w \in RedeliverWorkers : Return(w) /\ UNCHANGED <<connVars, extVars>>
    \/ \E w \in RedeliverWorkers : AckOnStream(w) /\ UNCHANGED <<connVars, pureVars, mgrVars, jobVars, rateVars, chanVars>>
    \/ \E w \in RedeliverWorkers : NackOnStream(w) /\ UNCHANGED <<connVars, pureVars, mgrVars, jobVars, rateVars, chanVars>>

SpecJobQueue == InitJobQueue /\ [][NextJobQueue]_vars

\* every goroutine that can take a step is scheduled, and the broker delivers
\* what it has queued
FairJobQueue ==
    /\ SpecJobQueue
    /\ WF_vars(BrokerRedeliver /\ UNCHANGED <<connVars, pureVars, mgrVars, jobVars, rateVars, chanVars>>)
    /\ WF_vars(BrokerRedeliverAgain /\ UNCHANGED <<connVars, pureVars, mgrVars, rateVars, chanVars>>)
    /\ \A w \in RedeliverWorkers :
          /\ WF_vars(OpenStream(w) /\ UNCHANGED <<connVars, pureVars, mgrVars, jobVars, rateVars, chanVars>>)
          /\ WF_vars(Receive(w) /\ UNCHANGED <<connVars, pureVars, mgrVars, jobVars, rateVars, chanVars>>)
          /\ WF_vars(DeadStreamClosed(w) /\ UNCHANGED <<connVars, pureVars, mgrVars, jobVars, rateVars, chanVars>>)
          /\ WF_vars(Call(w) /\ UNCHANGED <<connVars, extVars>>)
          /\ WF_vars(JobRouter(w) /\ UNCHANGED <<connVars, pureVars, mgrVars, brokerVars, rateVars, chanVars>>)
          /\ WF_vars(JobHandlerReturn(w) /\ UNCHANGED <<connVars, extVars>>)
          /\ WF_vars(Return(w) /\ UNCHANGED <<connVars, extVars>>)
          /\ WF_vars(AckOnStream(w) /\ UNCHANGED <<connVars, pureVars, mgrVars, jobVars, rateVars, chanVars>>)
          /\ WF_vars(NackOnStream(w) /\ UNCHANGED <<connVars, pureVars, mgrVars, jobVars, rateVars, chanVars>>)

\* ------------------------------------------------------- Manager.Close
\* the holder of Manager.mutex while Close runs
Closer == 0 - 1

\* m.mutex.Lock(); defer m.mutex.Unlock()
ManagerCloseLock ==
    /\ Running /\ closing = "idle"
    /\ mutex = 0
    /\ mutex' = Closer
    /\ closing' = "consumers"
    /\ UNCHANGED <<registries, objects, mcall>>

\* for each consumer: consumer.Stop() has returned; for each publisher:
\* publisher.Close(), which does nothing; then m.conn.Close() is called
ManagerClosePublishers ==
    /\ Running /\ closing = "consumers"
    /\ \A k \in DOMAIN sp : sp[k] \in {"done", "skipped"}
    /\ closing' = "conn"
    /\ UNCHANGED <<registries, mutex, objects, mcall>>

\* m.conn.Close() has returned: return its error or nil; the deferred Unlock
ManagerCloseReturn ==
    /\ Running /\ closing = "conn"
    /\ cl.pc = "idle" /\ cl.n > 0
    /\ closing' = "done"
    /\ mutex' = 0
    /\ UNCHANGED <<registries, objects, mcall>>

\* the connection once NewConnection has returned it: dialled, ready, the
\* reconnect goroutine waiting in its select
InitConnected ==
    /\ isConnected = TRUE
    /\ conn = 1
    /\ connClosed = {}
    /\ dials = 1
    /\ dialFails = 0
    /\ done = "open"
    /\ notifyReady = 0
    /\ channels = NoChannels
    /\ chConn = <<>>
    /\ chClosed = {}
    /\ channelsMux = "free"
    /\ built = "ok"
    /\ lp = "select"
    /\ cl = [pc |-> "idle", n |-> 0, ret |-> "none"]
    /\ gt = [pc |-> "idle", n |-> 0, name |-> "a"]
    /\ got = [ch |-> 0, conn |-> 0, up |-> FALSE]

\* Teardown: a Manager with one cached consumer, started by Consume and
\* working through its queue, and one cached publisher; one goroutine calls
\* Manager.Close, and the caller of Consume may cancel its context.
InitTeardown ==
    /\ InitConsumer({1}, {1}, WorkConcurrency, MaxDeliveries, TRUE)
    /\ InitConnected
    /\ last = NoCall
    /\ NoJobs
    /\ NoBroker /\ NoLimiter /\ NoNewChannel
    /\ registries = [k \in Kinds |-> [n \in MgrNames |->
                        IF n = "x" /\ k = "consumer" THEN 1
                        ELSE IF n = "x" /\ k = "publisher" THEN 2 ELSE 0]]
    /\ objects = <<[kind |-> "consumer", name |-> "x", config |-> "nil"],
                   [kind |-> "publisher", name |-> "x", config |-> "nil"]>>
    /\ mutex = 0
    /\ mcall = <<>>
    /\ closing = "idle"
    /\ autoAck = FALSE
    /\ handlers = {Wildcard}
    /\ middleware = <<>>
    /\ dl = [d \in Tags |-> [id |-> d, key |-> "k"]]

NextTeardown ==
    \/ ManagerCloseLock /\ UNCHANGED <<consVars, connVars, pureVars, jobVars, brokerVars, rateVars, chanVars>>
    \/ \E k \in DOMAIN sp : closing = "consumers" /\ StopCheck(k) /\ UNCHANGED <<connVars, extVars>>
    \/ \E k \in DOMAIN sp : closing = "consumers" /\ StopClose(k) /\ UNCHANGED <<connVars, extVars>>
    \/ ManagerClosePublishers /\ UNCHANGED <<consVars, connVars, pureVars, jobVars, brokerVars, rateVars, chanVars>>
    \/ closing = "conn" /\ cl.n = 0 /\ CloseCheck /\ UNCHANGED <<consVars, extVars>>
    \/ CloseDone /\ UNCHANGED <<cfg, isRunning, stopCh, wg, ctxDone, st, sp, work, extVars>>
    \/ CloseCloseChannels /\ UNCHANGED <<consVars, extVars>>
    \/ CloseConn /\ UNCHANGED <<consVars, extVars>>
    \/ ManagerCloseReturn /\ UNCHANGED <<consVars, connVars, pureVars, jobVars, brokerVars, rateVars, chanVars>>
    \/ ReconnectDone /\ UNCHANGED <<consVars, extVars>>
    \/ \E s \in DOMAIN st : Cancel(s) /\ UNCHANGED <<connVars, extVars>>
    \/ \E s \in DOMAIN st : StartSelect(s) /\ UNCHANGED <<connVars, extVars>>
    \/ \E s \in DOMAIN st : StartUnset(s) /\ UNCHANGED <<connVars, extVars>>
    \/ \E s \in DOMAIN st : StartClose(s) /\ UNCHANGED <<connVars, extVars>>
    \/ \E s \in DOMAIN st : StartWait(s) /\ UNCHANGED <<connVars, extVars>>
    \/ \E t \in DOMAIN th : WorkerExit(t) /\ UNCHANGED <<connVars, extVars>>
    \/ \E t \in DOMAIN th : WorkerOpen(t) /\ UNCHANGED <<connVars, extVars>>
    \/ \E t \in DOMAIN th : StreamClosed(t) /\ UNCHANGED <<connVars, extVars>>
    \/ \E t \in DOMAIN th : TakeDelivery(t) /\ UNCHANGED <<connVars, extVars>>
    \/ \E t \in DOMAIN th : Call(t) /\ UNCHANGED <<connVars, extVars>>
    \/ \E t \in DOMAIN th : HandlerReturn(t) /\ UNCHANGED <<connVars, extVars>>
    \/ \E t \in DOMAIN th : Return(t) /\ UNCHANGED <<connVars, extVars>>
    \/ \E t \in DOMAIN th : AckCall(t) /\ UNCHANGED <<connVars, extVars>>
    \/ \E t \in DOMAIN th : NackCall(t) /\ UNCHANGED <<connVars, extVars>>

SpecTeardown == InitTeardown /\ [][NextTeardown]_vars

\* ================================================================ claims
Workers == {t \in DOMAIN th : IsWorker(t)}
HasTimeout == \E p \in 1..Len(middleware) : middleware[p] = "Timeout"

\* C1: with autoAck=false every delivery a worker takes gets exactly one
\* terminal acknowledgment call from the worker, one Ack or one Nack, also when
\* the worker's Ack call returns an error.
C1_ExactlyOneAck ==
    ~autoAck => \A d \in Tags : /\ Len(acks[d]) <= 1
                                /\ Finished(d) => Len(acks[d]) = 1

\* C2: after Stop() on a running consumer every worker exits after its current
\* delivery and the blocked Start call returns nil once all have exited; no
\* fault (such as closing the stop channel twice) occurs on the way. Stated for
\* one Start call and one Stop call.
C2_StopEndsStartCleanly ==
    (/\ \E k \in DOMAIN sp : sp[k] = "done" /\ \A j \in DOMAIN sp \ {k} : sp[j] = "idle"
     /\ \E s \in DOMAIN st : \A r \in DOMAIN st \ {s} : st[r].pc = "idle")
    => /\ fault = NoFault
       /\ \A s \in DOMAIN st :
             st[s].pc = "done" => /\ st[s].ret = "nil"
                                  /\ \A w \in Workers : th[w].pc \in {"none", "exited"}

\* C3: on one Consumer at most one Start call ever spawns workers; every other
\* Start call, concurrent with the first or made after the consumer stopped,
\* fails with ConsumerAlreadyRunning and spawns no worker.
C3_AtMostOneStartSpawns ==
    /\ Cardinality({s \in DOMAIN st : st[s].i > 0}) <= 1
    /\ \A s \in DOMAIN st :
          (st[s].pc = "done" /\ \E r \in DOMAIN st \ {s} : st[r].i > 0)
             => st[s].i > 0 \/ st[s].ret = ErrAlreadyRunning

\* C7: with one Deduplication instance and a handler that succeeds, deliveries
\* sharing one message id enter the handler once, also when two workers process
\* them at the same time.
C7_DedupInvokesOnce ==
    \A i \in {dl[d].id : d \in Tags} :
       LET same == {d \in Tags : dl[d].id = i}
       IN (\A d \in same : outcome[d] \in {"none", "nil"})
          => Cardinality({d \in same : invoked[d] > 0}) <= 1

\* C8: with Recovery registered outermost and Timeout inward of it, a panic in
\* the handler comes back to the worker as ErrPanicRecovered and the process
\* keeps running.
RecommendedChain ==
    /\ Len(middleware) >= 2
    /\ middleware[1] = "Recovery"
    /\ \E p \in 2..Len(middleware) : middleware[p] = "Timeout"

C8_RecoveryOutermostContainsPanic ==
    RecommendedChain => fault # FaultPanic

\* C9: when Recovery directly wraps a handler that runs on the worker's own
\* goroutine, a panic in the handler makes the wrapped call return
\* ErrPanicRecovered; the worker treats it as any failure (Nack with requeue
\* unless autoAck) and stays in its loop.
RecoveryDirect ==
    /\ middleware # <<>>
    /\ middleware[Len(middleware)] = "Recovery"
    /\ ~HasTimeout

C9_RecoveryDirect ==
    RecoveryDirect =>
       /\ fault # FaultPanic
       /\ \A w \in Workers :
             (th[w].d # 0 /\ outcome[th[w].d] = "panic")
                => th[w].val = ErrPanicRecovered /\ th[w].pc = "nack"
       /\ \A d \in Tags :
             (outcome[d] = "panic" /\ Finished(d))
                => /\ acks[d] = IF autoAck THEN <<>> ELSE <<"Nack">>
                   /\ th[takenBy[d]].pc \in {"loop", "select", "exited"}
                         \/ th[takenBy[d]].d # 0

\* a worker whose handler panicked under Recovery has Nacked that delivery and
\* is handling the next one
C9_Witness ==
    /\ RecoveryDirect /\ ~autoAck
    /\ \E d \in Tags, e \in Tags :
          /\ d # e /\ outcome[d] = "panic" /\ acks[d] = <<"Nack">>
          /\ takenBy[d] = takenBy[e] /\ th[takenBy[e]].d = e

\* C10: under Timeout a call whose inner handler has not returned at the
\* deadline returns ErrProcessingTimeout, whether or not the inner handler ever
\* returns; the inner call is not cancelled (only its own steps move it), and
\* when it finishes its send on done never waits and nobody reads the result.
TimedOut(d) == timeoutRet[d] = ErrProcessingTimeout

C10_TimeoutAbandons ==
    /\ [](\A d \in Tags :
            /\ th[ChildOf(d)].pc = "send" => RoomOnDone(d)
            /\ (TimedOut(d) /\ Finished(d) /\ ~autoAck) => acks[d] = <<"Nack">>)
    /\ [][\A d \in Tags :
            /\ (th[ChildOf(d)].pc \in {"call", "run", "ret", "mark"}
                  => th'[ChildOf(d)].pc \in {"call", "run", "ret", "mark", "send"})
            /\ (\E w \in Workers : th[w].pc = "wait" /\ th[w].d = d
                                   /\ th'[w] # th[w] /\ doneCh[d] = <<>>)
                  => /\ timeoutRet'[d] = ErrProcessingTimeout
                     /\ th'[ChildOf(d)] = th[ChildOf(d)]
            /\ TimedOut(d) => doneCh'[d] \in {doneCh[d], Append(doneCh[d], th[ChildOf(d)].val)}
         ]_vars

\* the worker has finished one delivery that timed out while its inner handler
\* is still running, and the abandoned call of another has finished and left
\* its result on done
C10_Witness ==
    /\ \E d \in Tags : TimedOut(d) /\ Finished(d) /\ th[ChildOf(d)].pc = "run"
    /\ \E d \in Tags : TimedOut(d) /\ th[ChildOf(d)].pc = "exited" /\ doneCh[d] # <<>>

\* C4: Close() is idempotent: a call after the first raises no fault (such as
\* closing the done channel twice) and returns nil.
C4_CloseIdempotent ==
    /\ fault # FaultClose
    /\ cl.n >= 2 => cl.ret = "nil"

\* C5: Close() is terminal: once a Close() call has returned IsConnected() is
\* false and stays false, and the reconnect goroutine makes no connect attempt.
C5_CloseTerminal ==
    /\ [](cl.n >= 1 => ~isConnected)
    /\ [][cl.n >= 1 => dials' + dialFails' = dials + dialFails]_vars

\* C6: when the connection drops and Close() has not been called, the
\* Connection passes through Disconnected and is Connected again on a new
\* physical connection without a caller's help; and a channel GetChannel
\* returns once Connected on a later connection was opened on that connection,
\* never before the drop.
C6_ReconnectRenewsChannels ==
    /\ [](got.up /\ got.conn >= 2 => chConn[got.ch] = got.conn)
    /\ [][conn' # conn => ~isConnected]_vars
    /\ \A k \in 1..MaxConns :
          (conn = k /\ k \in connClosed /\ ~CloseCalled)
             ~> (CloseCalled \/ (isConnected /\ conn > k))

\* a channel was opened before a drop, and after the recovery GetChannel has
\* returned a channel of the second connection, with no Close() call made
C6_Witness ==
    /\ ~CloseCalled
    /\ got.up /\ got.conn = 2 /\ got.ch # 0
    /\ \E ch \in Channels : chConn[ch] = 1

\* C11: without autoAck the worker answers a routable delivery by what the
\* wrapped handler returned: nil gives Ack, an error gives Nack (the model's
\* Ack and Nack are Ack(false) and Nack(false, true)), and a Nack follows an
\* Ack only when that Ack call itself failed; with autoAck the worker calls
\* neither.
Routable(d) == dl[d].key \in handlers \/ Wildcard \in handlers

WrappedResult(d) ==
    IF HasTimeout THEN timeoutRet[d]
    ELSE IF middleware = <<"Deduplication">> /\ invoked[d] = 0 THEN "nil"
    ELSE IF outcome[d] = "panic" THEN ErrPanicRecovered
    ELSE outcome[d]

C11_AckFollowsResult ==
    /\ [](\A d \in Tags :
            (Routable(d) /\ Finished(d)) =>
               IF autoAck THEN acks[d] = <<>>
               ELSE IF WrappedResult(d) = "nil"
                    THEN acks[d] # <<>> /\ acks[d][1] = "Ack"
                    ELSE acks[d] = <<"Nack">>)
    /\ [][\A d \in Tags :
            (Routable(d) /\ acks[d] # <<>> /\ acks'[d] # acks[d])
               => /\ acks[d] = <<"Ack">> /\ acks'[d] = <<"Ack", "Nack">>
                  /\ th[takenBy[d]].pc = "nack" /\ th[takenBy[d]].val = "err"]_vars

\* one worker has Acked a delivery whose handler succeeded and Nacked one
\* whose handler failed
C11_Witness ==
    /\ ~autoAck
    /\ \E d \in Tags, e \in Tags :
          /\ Routable(d) /\ Finished(d) /\ WrappedResult(d) = "nil" /\ acks[d] = <<"Ack">>
          /\ Routable(e) /\ Finished(e) /\ WrappedResult(e) = "err" /\ acks[e] = <<"Nack">>

\* C12: a delivery with neither a handler for its routing key nor a wildcard
\* handler enters no handler and no middleware, is Acked (never Nacked) unless
\* autoAck, and gives the worker's loop no error: the worker is back in its
\* select at once.
Unroutable(d) == dl[d].key \notin handlers /\ Wildcard \notin handlers

C12_UnroutableAcked ==
    \A d \in Tags :
       (Unroutable(d) /\ takenBy[d] # <<0, 0>>) =>
          /\ invoked[d] = 0 /\ outcome[d] = "none"
          /\ th[ChildOf(d)] = NoThread /\ timeoutRet[d] = "none"
          /\ dl[d].id \notin processed
          /\ Finished(d)
          /\ acks[d] = IF autoAck THEN <<>> ELSE <<"Ack">>

\* a worker under a middleware chain has taken an unroutable delivery
C12_Witness ==
    /\ ~autoAck /\ middleware # <<>>
    /\ \E d \in Tags : Unroutable(d) /\ takenBy[d] # <<0, 0>> /\ acks[d] = <<"Ack">>

\* C14: the chain is entered in registration order and left in the reverse
\* order: a goroutine in its p-th frame is in the middleware registered p-th,
\* the handler runs under all of them, a Timeout registered before Recovery
\* has Recovery on its own goroutine (where it catches the handler's panic),
\* and the handler is entered at most once per delivery.
C14_RegistrationOrder ==
    /\ \A t \in DOMAIN th :
          /\ th[t].pc = "wait" => middleware[th[t].pos] = "Timeout"
          /\ th[t].pc = "mark" => middleware[th[t].pos] = "Deduplication"
          /\ th[t].pc = "run" => th[t].pos = Len(middleware) + 1
          /\ th[t].base # 0 => middleware[th[t].base] = "Timeout"
    /\ middleware = <<"Timeout", "Recovery">> => fault # FaultPanic
    /\ \A d \in Tags : invoked[d] <= 1

\* under Timeout registered first and Recovery second the handler has
\* panicked on Timeout's goroutine and the worker got ErrPanicRecovered
C14_Witness ==
    /\ middleware = <<"Timeout", "Recovery">>
    /\ \E d \in Tags : outcome[d] = "panic" /\ timeoutRet[d] = ErrPanicRecovered

\* C13: findHandler picks the handler registered under the delivery's routing
\* key when there is one, else the wildcard handler when there is one, else
\* none; the exact match wins over the wildcard.
C13_ExactThenWildcard ==
    last.op = "findHandler" =>
       LET key == last.in[1]
           registered == last.in[2]
       IN /\ key \in registered => last.out = key
          /\ (key \notin registered /\ Wildcard \in registered) => last.out = Wildcard
          /\ (key \notin registered /\ Wildcard \notin registered) => last.out = "nil"

\* a key with its own handler was resolved while a wildcard handler existed
C13_Witness ==
    /\ last.op = "findHandler"
    /\ last.in[1] # Wildcard
    /\ {last.in[1], Wildcard} \subseteq last.in[2]
    /\ last.out = last.in[1]

\* C15: per registry and name at most one object is ever constructed and
\* cached; every call that succeeds returns that object, whose configuration
\* is the one the call that built it passed, whatever later calls pass.
C15_OneObjectPerName ==
    /\ [](\A kind \in Kinds, name \in MgrNames :
            LET made == {o \in 1..Len(objects) :
                             objects[o].kind = kind /\ objects[o].name = name}
            IN /\ Cardinality(made) <= 1
               /\ registries[kind][name] # 0 => made = {registries[kind][name]}
               /\ \A m \in DOMAIN mcall :
                     (mcall[m].pc = "done" /\ mcall[m].kind = kind /\ mcall[m].name = name
                        /\ mcall[m].ret > 0)
                        => made = {mcall[m].ret})
    /\ [][\A o \in 1..Len(objects) : objects'[o] = objects[o]]_vars

\* two callers asked for one name with different configurations and got the
\* same object, made with the first one's
C15_Witness ==
    \E m \in DOMAIN mcall, k \in DOMAIN mcall :
       /\ m # k /\ mcall[m].pc = "done" /\ mcall[k].pc = "done"
       /\ mcall[m].kind = mcall[k].kind /\ mcall[m].name = mcall[k].name
       /\ mcall[m].config # mcall[k].config
       /\ mcall[m].ret > 0 /\ mcall[m].ret = mcall[k].ret
       /\ objects[mcall[m].ret].config = mcall[m].config

\* C16: Manager.Close stops every cached consumer, then closes every cached
\* publisher, then closes the connection, and when the connection gets closed
\* every worker of every cached consumer has exited, none still processing or
\* acknowledging a delivery.
C16_ConsumersStoppedBeforeConnection ==
    /\ closing \in {"conn", "done"} => \A k \in DOMAIN sp : sp[k] \in {"done", "skipped"}
    /\ CloseCalled => closing \in {"conn", "done"}
    /\ (cl.pc = "conn" \/ cl.n > 0) => \A w \in Workers : th[w].pc = "exited"

\* C19: every JSON-representable value, bare strings and byte slices
\* included, published on the JSON path and decoded from the received body
\* with Delivery.JSON comes back deep-equal to what was published.
C19_JSONRoundTrip ==
    (last.op = "RoundTrip" /\ last.in[1] # Chan) => last.out = last.in[1]

\* C20 as stated: a byte slice is sent unchanged, a string as its bytes, any
\* other value as its JSON encoding with the content type stamped as JSON; the
\* delivery mode is persistent exactly when Persistent is set.
C20_BodyRuleStampsJSON ==
    (last.op = "Publish" /\ last.in[1].Body # Chan) =>
       LET message == last.in[1]
           sent == last.out
       IN /\ ~sent.err
          /\ message.Body.t \in {"bytes", "string"} => sent.Body = message.Body.v
          /\ message.Body.t \notin {"bytes", "string"} =>
                /\ sent.Body = Marshal(message.Body)
                /\ sent.ContentType = "application/json"
          /\ (sent.DeliveryMode = 2) <=> message.Persistent

\* C20: a byte slice is sent unchanged, a string as its bytes, any other
\* value as its JSON encoding, or not at all when it has none; the content
\* type sent is the message's own when it has one, else JSON for an encoded
\* value and text/plain for bytes and strings; the delivery mode is persistent
\* (2) exactly when Persistent is set, else transient (1).
C20_BodyRule ==
    last.op = "Publish" =>
       LET message == last.in[1]
           sent == last.out
           raw == message.Body.t \in {"bytes", "string"}
       IN IF message.Body = Chan THEN sent.err
          ELSE /\ ~sent.err
               /\ raw => sent.Body = message.Body.v
               /\ ~raw => sent.Body = Marshal(message.Body)
               /\ message.ContentType # "" => sent.ContentType = message.ContentType
               /\ message.ContentType = "" =>
                     sent.ContentType = IF raw THEN "text/plain" ELSE "application/json"
               /\ sent.DeliveryMode = IF message.Persistent THEN 2 ELSE 1

\* a Job was published in a message that names another content type: it went
\* out JSON-encoded under that content type, persistent as asked
C20_Witness ==
    /\ last.op = "Publish"
    /\ last.in[1].Body.t = "job" /\ last.in[1].ContentType = "text/xml"
    /\ last.in[1].Persistent
    /\ ~last.out.err /\ last.out.ContentType = "text/xml" /\ last.out.Body[1] = "{"
    /\ last.out.DeliveryMode = 2

C18_AtLeastOnce ==
    /\ [](broker.at = "gone" =>
            \E d \in Tags : /\ outcome[d] = "nil" /\ acks[d] = <<"Ack">>
                             /\ d \notin broker.lost)
    /\ \A d \in 1..(MaxDeliveries - 1) :
          (d \in broker.lost) ~> (takenBy[d + 1] # <<0, 0>> \/ ~Running)

\* a delivery's stream died before its Ack, the worker's Ack failed, and the
\* message came again under the next tag and was acknowledged
C18_Witness ==
    /\ 1 \in broker.lost /\ acks[1] = <<"Ack", "Nack">>
    /\ takenBy[2] # <<0, 0>> /\ acks[2] = <<"Ack">> /\ broker.at = "gone"

\* C21: a Publish call sends at most once; when the channel cannot be had or
\* the body cannot be serialised it sends nothing and returns the failure; when
\* the send fails it returns that failure and does not send again; it returns
\* nil only after one send the broker took.
C21_OneSendAttempt ==
    last.op = "PublishAttempt" =>
       LET message == last.in[1]
           chOk == last.in[2]
           sendOk == last.in[3]
       IN /\ last.out.sends <= 1
          /\ (~chOk \/ message.Body = Chan) => (last.out.sends = 0 /\ last.out.ret # "nil")
          /\ (chOk /\ message.Body # Chan /\ ~sendOk)
                => (last.out.sends = 1 /\ last.out.ret # "nil")
          /\ last.out.ret = "nil" => (chOk /\ sendOk /\ last.out.sends = 1)

\* a Publish whose one send the broker refused returned an error
C21_Witness ==
    /\ last.op = "PublishAttempt"
    /\ last.in[2] /\ ~last.in[3] /\ last.in[1].Body # Chan
    /\ last.out.sends = 1 /\ last.out.ret = "send error"

\* C22: a consumer with concurrency N never has more than N executions of
\* the registered handler in progress at once, also when Timeout abandons
\* calls, and no worker holds more than its prefetch count of deliveries taken
\* and not yet acknowledged.
C22_ConcurrencyBound ==
    /\ Cardinality({t \in DOMAIN th : th[t].pc = "run"}) <= concurrency
    /\ ~autoAck =>
          \A w \in Workers :
             Cardinality({d \in Tags : takenBy[d] = w /\ acks[d] = <<>>}) <= PrefetchCount

\* C23: a worker leaves its loop only when the stop signal or its context's
\* cancellation is there; after a handler error it Nacks and is back on its
\* stream, and after a failure of its channel or stream it is back at the top
\* of its loop, from where it opens a new channel and stream or leaves on a
\* signal.
C23_WorkerLeavesOnlyOnSignal ==
    [][\A w \in Workers :
          /\ (th[w].pc # "exited" /\ th'[w].pc = "exited") => Signalled(w)
          /\ (th[w].pc = "nack" /\ th'[w] # th[w]) => th'[w].pc = "select"
          /\ (th[w].pc = "select" /\ th'[w].pc \notin {"select", "exited"})
                => (th'[w].pc = "loop" \/ th'[w].d \in Tags)
          /\ (th[w].pc = "loop" /\ th'[w] # th[w]) => th'[w].pc \in {"select", "exited"}
      ]_vars

\* a worker Nacked a delivery whose handler failed, went on, and left after
\* the stop signal
C23_Witness ==
    \E w \in Workers, d \in Tags :
       /\ takenBy[d] = w /\ outcome[d] = "err" /\ acks[d] = <<"Nack">>
       /\ th[w].pc = "exited" /\ stopCh = "closed"

C25_GetChannelCachedOrFails ==
    [][gt'.n = gt.n + 1 =>
          IF gt.pc = "idle"
          THEN /\ channels' = channels
               /\ \E cached \in Names :
                     Usable(channels[cached]) /\ got'.ch = channels[cached]
          ELSE IF Usable(channels[gt.name])
          THEN got'.ch = channels[gt.name] /\ channels' = channels
          ELSE IF gt.pc = "lock" /\ ~isConnected
          THEN /\ GetChannelNotConnected = ErrChannelCreationFailed
               /\ channels' = channels /\ got' = got
          ELSE channels' # channels =>
                  /\ got'.ch \notin Channels
                  /\ channels' = [channels EXCEPT ![gt.name] = got'.ch]
      ]_vars

\* C26: NewConnection returns success only after a handshake succeeded, and
\* the connection it returns is Connected at that moment; when it gives up
\* waiting, the error it returns is ErrConnectionTimeout.
C26_NewConnectionConnectedOrTimeout ==
    [][built = "waiting" /\ built' # "waiting" =>
          IF built' = "ok"
          THEN dials >= 1 /\ isConnected
          ELSE NewConnectionTimedOut = ErrConnectionTimeout
      ]_vars

\* C27: under Retry the registered handler is entered exactly once for a
\* delivery; when it returned an error and the delivery's retry count is below
\* MaxRetries the chain returns nil and the worker goes on to Ack; when the
\* count is at or above MaxRetries the chain returns that error and the worker
\* goes on to Nack.
C27_RetrySwallowsBelowMax ==
    \A w \in DOMAIN th :
       (th[w].pc \in {"ack", "nack"} /\ acks[th[w].d] = <<>>) =>
          LET d == th[w].d
              count == IF dl[d].retry.t = "absent" THEN 0 ELSE dl[d].retry.v
          IN /\ invoked[d] = 1
             /\ outcome[d] = "err" =>
                  IF count < MaxRetries
                  THEN th[w].pc = "ack" /\ th[w].val = "nil"
                  ELSE th[w].pc = "nack" /\ th[w].val = outcome[d]

\* C28: with WithRetry(MaxRetries, delay) a delivery whose handler returned an
\* error while its retry count is below MaxRetries is not acknowledged before
\* the handler has been entered for it again.
C28_FailedHandlerRunsAgain ==
    \A d \in Tags :
       (/\ outcome[d] = "err"
        /\ (IF dl[d].retry.t = "absent" THEN 0 ELSE dl[d].retry.v) < MaxRetries
        /\ acks[d] # <<>> /\ acks[d][1] = "Ack") => invoked[d] >= 2

\* C29: under Deduplication an id in the store belongs to a delivery whose
\* handler returned nil; once a delivery's handler has failed, another delivery
\* of the same id that the worker finishes while no delivery of that id has
\* succeeded had the handler entered; and a delivery finished without the
\* handler entered was skipped as a duplicate: its id is in the store and,
\* without autoAck, the worker's answer to it is Ack.
C29_DedupMarksAfterSuccess ==
    middleware = <<"Deduplication">> =>
       /\ \A id \in processed : \E d \in Tags : dl[d].id = id /\ outcome[d] = "nil"
       /\ \A d, e \in Tags :
             (/\ d # e /\ dl[d].id = dl[e].id
              /\ Finished(d) /\ outcome[d] = "err"
              /\ Finished(e)
              /\ \A o \in Tags : dl[o].id = dl[e].id => outcome[o] # "nil")
                => invoked[e] = 1
       /\ \A e \in Tags :
             (Finished(e) /\ Routable(e) /\ invoked[e] = 0)
                => /\ dl[e].id \in processed
                   /\ ~autoAck => acks[e] # <<>> /\ acks[e][1] = "Ack"

\* the handler failed for the first delivery of a message and was entered
\* again, with success, for the second one, which marked the id
C29_Witness ==
    /\ middleware = <<"Deduplication">> /\ ~autoAck
    /\ dl[1].id = dl[2].id
    /\ Finished(1) /\ outcome[1] = "err" /\ acks[1] = <<"Nack">>
    /\ Finished(2) /\ invoked[2] = 1 /\ outcome[2] = "nil"
    /\ dl[2].id \in processed

\* C30: all workers of a consumer pass the one gate of its RateLimit
\* middleware: the handler invocations started never outnumber the receives
\* from the gate, a receive never happens without a tick in the gate and takes
\* that tick away, and so the invocations started never outnumber the ticks
\* the gate has produced.
RECURSIVE InvokedUpTo(_)
InvokedUpTo(d) == IF d = 0 THEN 0 ELSE invoked[d] + InvokedUpTo(d - 1)

InvocationsStarted == InvokedUpTo(MaxDeliveries)

C30_RateLimitSharedGate ==
    /\ [](InvocationsStarted <= limiter.taken)
    /\ [](limiter.taken + limiter.c <= limiter.ticks)
    /\ [][limiter'.taken # limiter.taken =>
            limiter.c = 1 /\ limiter'.c = 0 /\ limiter'.taken = limiter.taken + 1]_vars

\* two workers each started the handler, each after its own tick
C30_Witness ==
    /\ \E v, w \in DOMAIN th : v # w /\ th[v].pc = "run" /\ th[w].pc = "run"
    /\ limiter.taken = 2 /\ limiter.ticks >= 2

\* C31: when the registered handler is entered for a delivery, every delivery
\* its worker took before (a lower tag of its stream) is done with: no goroutine is still on its
\* way to, or inside, the handler for it, and without autoAck the worker has
\* answered it with Ack or Nack.
C31_WorkerInOrder ==
    [][\A d \in Tags :
          invoked'[d] = invoked[d] + 1 =>
             \A e \in 1..(d - 1) :
                takenBy[e] = takenBy[d] =>
                   /\ ~ \E t \in DOMAIN th : th[t].d = e /\ th[t].pc \in {"call", "run"}
                   /\ ~autoAck => acks[e] # <<>>
      ]_vars

\* C32: the connection made at registration uses the tuning parameters it was
\* registered with: it sleeps the configured reconnect delay, its initial
\* connect is bounded by the configured attempt cap, it dials with the
\* configured heartbeat interval when heartbeats are enabled and with none
\* when they are not, and it declares by the configured auto-declare flags.
C32_ConfiguredValuesUsed ==
    last.op = "New" =>
       LET config == last.in[1]
       IN /\ last.out.reconnectSleep = config.ReconnectDelay
          /\ last.out.initialBound[1] = "attempts"
          /\ last.out.heartbeat = IF config.EnableHeartbeat
                                  THEN config.HeartbeatInterval ELSE "0s"
          /\ last.out.autoDeclareQueues = config.AutoDeclareQueues
          /\ last.out.autoDeclareExchange = config.AutoDeclareExchange

\* C33: whenever the connection is not Connected its channel map is empty, and
\* a channel a GetChannel call returns was opened on a physical connection
\* that is not closed.
C33_ChannelsDroppedOnClose ==
    /\ [](~isConnected => channels = NoChannels)
    /\ [][(/\ gt'.n = gt.n + 1
           /\ \/ gt.pc = "idle"
              \/ gt.pc = "lock" /\ Usable(channels[gt.name])
              \/ gt.pc = "open" /\ channels' # channels)
             => chConn'[got'.ch] \notin connClosed]_vars

\* C34: whatever Stop calls are made and however they interleave with Start
\* and with the cancellation of its context, the stop channel is never closed
\* a second time.
C34_StopChannelClosedOnce == fault # FaultClose

\* C35: the channel map holds no entry for a channel its user has closed, so
\* it holds no more entries than there are callers using a channel now.
C35_MapDoesNotGrow ==
    /\ \A t \in DOMAIN channels : channels[t] \notin chClosed
    /\ Cardinality({t \in DOMAIN channels : channels[t] # 0})
          <= Cardinality({k \in DOMAIN nc : nc[k].pc = "use"})

\* C36: two callers of NewChannel that hold a channel at the same time hold
\* different channels, and the channel a caller holds is not one another
\* caller has closed.
C36_NewChannelOwnChannel ==
    \A k \in DOMAIN nc :
       nc[k].pc = "use" =>
          /\ nc[k].ch \notin chClosed
          /\ \A j \in DOMAIN nc \ {k} : nc[j].pc = "use" => nc[j].ch # nc[k].ch

\* C37: once NewConnection has returned its timeout error, the reconnect
\* goroutine it started makes no further connect attempt: no dial succeeds or
\* fails for the connection object the caller never got.
C37_NothingRunsAfterTimeout ==
    [][built = "failed" => dials' = dials /\ dialFails' = dialFails]_vars

\* C38: a WaitForConnection call that found the connection not Connected
\* returns nil only when a connect has completed since the call began.
C38_WaitReturnsOnlyWhenConnected ==
    [][(last.op = "WaitForConnection" /\ last.out = "waiting" /\ last'.out = "nil")
          => Connects > last.in[1]]_vars

\* C39: on a queue consumed with ConsumeJobs, a message whose body is not a
\* decodable job envelope is eventually removed from the queue.
C39_UndecodableJobRemoved ==
    (JSON(dl[1].body, "job") = JSONError) => <>(broker.at = "gone")

\* C40: a ConsumeJobs call for a queue whose cached consumer is running
\* fails and leaves the handlers the workers dispatch to as they were.
C40_FailedConsumeLeavesHandlers ==
    [][(last.op = "none" /\ last'.op = "ConsumeJobs")
          => /\ last'.out = ErrAlreadyRunning
             /\ handlers' = handlers /\ jobHandlers' = jobHandlers]_vars

====
